---- MODULE Spec2Model ----
(***************************************************************************)
(* ClawOps core: the event log (events.ts), the card state machine         *)
(* (cards.ts), command admission (commands.ts), the decision lifecycle     *)
(* (decisions.ts) and the sweeper (sweeper.ts).                            *)
(*                                                                         *)
(* Every Convex mutation is one serializable transaction, so every handler *)
(* is one atomic action.  A handler is written as a function from a        *)
(* transaction record (the tables it may write, a sticky `error`, and the  *)
(* value `ret` of the last nested call) to a transaction record; Commit    *)
(* installs the result, or rolls the whole mutation back when it threw.    *)
(***************************************************************************)
EXTENDS Integers, Sequences, FiniteSets, TLC

VARIABLES
  clock,      \* Date.now()
  nextId,     \* source of generateId(): every generated id is fresh
  events,     \* table "events" in insertion order (the append-only log)
  cards,      \* table "cards" in creation order
  decisions,  \* table "decisions" in creation order
  commands,   \* table "commands" in creation order
  artifacts,  \* table "artifacts" in creation order
  runs,       \* table "runs" in creation order
  projects,   \* table "projects": the projectIds that exist
  project_members,  \* table "project_members"
  inflight,   \* the reportArtifact actions that have started and not returned
  history     \* the calls completed since the seed, with what they returned

vars ==
  <<clock, nextId, events, cards, decisions, commands, artifacts, runs,
    projects, project_members, inflight, history>>

\* number of mutations committed since the seed
calls == Len(history)

\* the most recent committed call and what it returned
last ==
  IF history = <<>>
    THEN [op |-> "seed", user |-> "undefined", args |-> <<>>, ret |-> 0, now |-> 0]
    ELSE history[Len(history)]

----------------------------------------------------------------------------
(* Optional values.  v.optional(v.string()) that is absent is Undefined;   *)
(* an absent v.optional(v.number()) is NoTs; an absent id is NoId.         *)

Undefined == "undefined"
NoTs == 0 - 1
NoId == 0
NoError == "ok"

----------------------------------------------------------------------------
(* Program constants *)

DEFAULT_PRIORITY == 50
DECISION_CLAIM_MS == 5 * 60 * 1000
DEFER_EXTENSION_MS == 24 * 60 * 60 * 1000
NOW_BACKLOG_DEFER_THRESHOLD == 2
NOW_BACKLOG_ALERT_THRESHOLD == 5
SWEEPER == "system:sweeper"

----------------------------------------------------------------------------
(* Bounds of the model *)

\* the clock advances by one claim lease at a time, MaxTicks times at most
TickMs == DECISION_CLAIM_MS
MaxTicks == 2
\* mutations committed after the seed
MaxCalls == 2

----------------------------------------------------------------------------
(* Projects and their members (tables "projects", "project_members").     *)

Projects == {"P1", "P2"}

\* the members of the two projects that are set up before the runs of the
\* lifecycle begin
SeededMembers ==
  { [userId |-> "own", projectId |-> "P1", role |-> "owner"],
    [userId |-> "own", projectId |-> "P2", role |-> "owner"],
    [userId |-> "opA", projectId |-> "P1", role |-> "operator"],
    [userId |-> "opB", projectId |-> "P1", role |-> "operator"],
    [userId |-> "opA", projectId |-> "P2", role |-> "operator"],
    [userId |-> "bot", projectId |-> "P1", role |-> "bot"],
    [userId |-> "bot", projectId |-> "P2", role |-> "bot"],
    [userId |-> "view", projectId |-> "P1", role |-> "viewer"] }

\* withAuth / resolveAuth: the AuthContext of `user` calling on `projectId`,
\* or the error that rejects the call before the handler runs.
withAuth(tx, roles, user, projectId) ==
  IF user = Undefined
    THEN [error |-> "Unauthenticated"]
    ELSE LET ms == {m \in tx.members :
                      m.userId = user /\ m.projectId = projectId}
         IN IF ms = {}
              THEN [error |-> "NotAMember"]
              ELSE LET member == CHOOSE m \in ms : TRUE
                   IN IF member.role # "owner" /\ member.role \notin roles
                        THEN [error |-> "InsufficientPermissions"]
                        ELSE [error |-> NoError, userId |-> user,
                              projectId |-> member.projectId,
                              role |-> member.role]

----------------------------------------------------------------------------
(* Transactions *)

Tx == [nextId |-> nextId, events |-> events, cards |-> cards,
       decisions |-> decisions, commands |-> commands,
       artifacts |-> artifacts, projects |-> projects,
       members |-> project_members, error |-> NoError, ret |-> NoId]

EmptyTx == [nextId |-> 1, events |-> <<>>, cards |-> <<>>,
            decisions |-> <<>>, commands |-> <<>>, artifacts |-> <<>>,
            projects |-> Projects, members |-> SeededMembers,
            error |-> NoError, ret |-> NoId]

\* `throw new Error(...)`: the first error sticks, later steps do nothing
Throw(tx, err) == IF tx.error # NoError THEN tx ELSE [tx EXCEPT !.error = err]

\* generateId(prefix)
generateId(tx) == tx.nextId
Bump(tx) == [tx EXCEPT !.nextId = @ + 1]

\* index of the first element of sequence s satisfying field f = v, or 0
RECURSIVE FirstFrom(_, _, _, _)
FirstFrom(s, f, v, i) ==
  IF i > Len(s) THEN 0
  ELSE IF s[i][f] = v THEN i
  ELSE FirstFrom(s, f, v, i + 1)

IndexOf(s, f, v) == FirstFrom(s, f, v, 1)

\* sequence s without its i-th element
RemoveAt(s, i) == SubSeq(s, 1, i - 1) \o SubSeq(s, i + 1, Len(s))

----------------------------------------------------------------------------
(* Event log: events.ts *)

\* strings that match one of SECRET_PATTERNS
SECRET_PATTERNS == {"sk-abcdefghijklmnopqrstuvwx"}

\* the string leaves of an event's payload
StringFields(type) ==
  CASE type = "CardTransitioned" -> {"from", "to", "reason"}
    [] type = "CardCreated" -> {"title"}
    [] type = "CommandRequested" -> {"title"}
    [] type = "DecisionRequested" -> {"urgency", "fallbackOption"}
    [] type = "DecisionClaimed" -> {"claimedBy"}
    [] type = "DecisionRendered" -> {"selectedOption", "renderedBy", "note"}
    [] type = "DecisionRenderRejected" ->
         {"attemptedOption", "attemptedBy", "currentState", "reason"}
    [] type = "DecisionClaimExpired" -> {"previousClaimedBy"}
    [] type = "DecisionDeferred" -> {"reason", "originalUrgency", "action"}
    [] type = "DecisionExpired" -> {}
    [] type = "ArtifactProduced" -> {"type", "logicalName"}
    [] OTHER -> {"text"}

containsSecret(ev) ==
  \/ \E f \in StringFields(ev.type) \cap DOMAIN ev.payload :
        ev.payload[f] \in SECRET_PATTERNS
  \/ /\ ev.type = "DecisionRequested"
     /\ \E i \in DOMAIN ev.payload.optionKeys :
           ev.payload.optionKeys[i] \in SECRET_PATTERNS

\* an event as passed to appendEvent
Event(eventId, projectId, type, ts, commandId, cardId, decisionId, idempotencyKey, payload) ==
  [eventId |-> eventId, projectId |-> projectId, type |-> type, ts |-> ts,
   commandId |-> commandId, cardId |-> cardId, decisionId |-> decisionId,
   idempotencyKey |-> idempotencyKey, payload |-> payload]

\* appendEvent: returns (in ret) the row id of the event, which is its
\* position in the table
\* fault: an append that skips the idempotency check
appendEventNoIdempotency(tx, ev) ==
  IF tx.error # NoError THEN tx
  ELSE IF containsSecret(ev) THEN Throw(tx, "SecretInPayload")
  ELSE [tx EXCEPT !.events = Append(@, ev), !.ret = Len(tx.events) + 1]

appendEvent(tx, ev) ==
  IF tx.error # NoError THEN tx
  ELSE IF containsSecret(ev) THEN Throw(tx, "SecretInPayload")
  ELSE LET existing == IF ev.idempotencyKey # Undefined
                         THEN IndexOf(tx.events, "idempotencyKey",
                                      ev.idempotencyKey)
                         ELSE 0
       IN IF existing # 0
            THEN [tx EXCEPT !.ret = existing]
            ELSE [tx EXCEPT !.events = Append(@, ev),
                            !.ret = Len(tx.events) + 1]

----------------------------------------------------------------------------
(* Card state machine: cards.ts *)

\* fault: a table that allows every transition
ANY_TRANSITION(from) ==
  {"READY", "RUNNING", "NEEDS_DECISION", "RETRY_SCHEDULED", "DONE", "FAILED"}

VALID_TRANSITIONS(from) ==
  CASE from = "READY" -> {"RUNNING"}
    [] from = "RUNNING" -> {"DONE", "NEEDS_DECISION", "FAILED", "RETRY_SCHEDULED"}
    [] from = "NEEDS_DECISION" -> {"RUNNING", "FAILED"}
    [] from = "RETRY_SCHEDULED" -> {"READY"}
    [] from = "DONE" -> {}
    [] from = "FAILED" -> {}

CardStates ==
  {"READY", "RUNNING", "NEEDS_DECISION", "RETRY_SCHEDULED", "DONE", "FAILED"}

\* createCard(projectId, commandId, priority): public, not auth-gated
createCard(tx, now, a) ==
  LET cardId == generateId(tx)
      tx1 == Bump(tx)
      row == [cardId |-> cardId, projectId |-> a.projectId, state |-> "READY",
              priority |-> a.priority, attempt |-> 0, retryAtTs |-> NoTs,
              createdTs |-> now, updatedTs |-> now]
      tx2 == [tx1 EXCEPT !.cards = Append(@, row)]
      tx3 == appendEvent(Bump(tx2),
               Event(generateId(tx2), a.projectId, "CardCreated", now,
                     a.commandId, cardId, NoId, Undefined,
                     [title |-> "card", priority |-> a.priority]))
  IN IF tx3.error # NoError THEN tx3 ELSE [tx3 EXCEPT !.ret = cardId]

\* fault: an attempt counter that counts every transition
AttemptOnEveryTransition(card, to) == card.attempt + 1

\* transitionCard: attempt is incremented on entry to RUNNING
NextAttempt(card, to) ==
  IF to = "RUNNING" THEN card.attempt + 1 ELSE card.attempt

\* fault: the message does not name the edge
UnnamedTransition(from, to) ==
  "InvalidTransition"

\* `Invalid card transition: ${from} -> ${args.to}`
InvalidTransition(from, to) ==
  "InvalidTransition: " \o from \o " -> " \o to

\* transitionCard(cardId, to, reason, commandId?, decisionId?, retryAtTs?)
transitionCard(tx, now, a) ==
  IF tx.error # NoError THEN tx
  ELSE
  LET idx == IndexOf(tx.cards, "cardId", a.cardId)
  IN IF idx = 0 THEN Throw(tx, "CardNotFound")
     ELSE
     LET card == tx.cards[idx]
         from == card.state
     IN IF a.to \notin VALID_TRANSITIONS(from)
          THEN Throw(tx, InvalidTransition(from, a.to))
          ELSE
          LET patched ==
                [card EXCEPT
                   !.state = a.to,
                   !.updatedTs = now,
                   !.attempt = NextAttempt(card, a.to),
                   !.retryAtTs =
                      IF from = "RETRY_SCHEDULED" THEN NoTs
                      ELSE IF a.to = "RETRY_SCHEDULED" /\ a.retryAtTs # NoTs
                        THEN a.retryAtTs
                        ELSE @]
              tx1 == [tx EXCEPT !.cards[idx] = patched]
              tx2 == appendEvent(Bump(tx1),
                       Event(generateId(tx1), card.projectId,
                             "CardTransitioned", now, a.commandId, card.cardId,
                             a.decisionId, Undefined,
                             [from |-> from, to |-> a.to, reason |-> a.reason]))
          IN IF tx2.error # NoError THEN tx2
             ELSE [tx2 EXCEPT !.ret = [from |-> from, to |-> a.to]]

----------------------------------------------------------------------------
(* Command admission: commands.ts.  requestCommand and _httpRequestCommand *)
(* run the same body; the first resolves the project through withAuth, the *)
(* second takes it from the HTTP adapter.                                  *)

requestCommandBody(tx, now, projectId, a) ==
  LET commandId == generateId(tx)
      tx1 == Bump(tx)
      cardId == generateId(tx1)
      tx2 == Bump(tx1)
      priority == IF a.priority = NoTs THEN DEFAULT_PRIORITY ELSE a.priority
      eventId == generateId(tx2)
      \* 1. Emit CommandRequested event
      tx3 == appendEvent(Bump(tx2),
               Event(eventId, projectId, "CommandRequested", now,
                     commandId, cardId, NoId, a.idempotencyKey,
                     [title |-> "cmd",
                      commandSpec |-> [priority |-> a.priority]]))
      \* 2. Insert command read model
      tx4 == [tx3 EXCEPT !.commands = Append(@,
                [commandId |-> commandId, projectId |-> projectId,
                 status |-> "PENDING", lastEventId |-> eventId,
                 updatedTs |-> now, priority |-> priority])]
      \* 3. Create card in READY state
      tx5 == [tx4 EXCEPT !.cards = Append(@,
                [cardId |-> cardId, projectId |-> projectId,
                 state |-> "READY", priority |-> priority, attempt |-> 0,
                 retryAtTs |-> NoTs, createdTs |-> now, updatedTs |-> now])]
      \* 4. Emit CardCreated event
      tx6 == appendEvent(Bump(tx5),
               Event(generateId(tx5), projectId, "CardCreated", now,
                     commandId, cardId, NoId, Undefined,
                     [title |-> "cmd", priority |-> priority]))
  IN IF tx6.error # NoError THEN tx6
     ELSE [tx6 EXCEPT !.ret = [commandId |-> commandId, cardId |-> cardId]]

requestCommand(tx, now, user, a) ==
  LET auth == withAuth(tx, {"operator", "bot", "owner"}, user, a.projectId)
  IN IF auth.error # NoError THEN Throw(tx, auth.error)
     ELSE requestCommandBody(tx, now, auth.projectId, a)

_httpRequestCommand(tx, now, a) == requestCommandBody(tx, now, a.projectId, a)

----------------------------------------------------------------------------
(* Decision lifecycle: decisions.ts *)

RECURSIVE SeqHas(_, _)
SeqHas(s, x) ==
  IF s = <<>> THEN FALSE ELSE Head(s) = x \/ SeqHas(Tail(s), x)

requestDecisionBody(tx, now, projectId, a) ==
  IF Len(a.options) = 0 THEN Throw(tx, "InvalidOptions")
  ELSE IF a.fallbackOption # Undefined /\ ~SeqHas(a.options, a.fallbackOption)
    THEN Throw(tx, "InvalidFallback")
  ELSE
  LET decisionId == generateId(tx)
      tx1 == Bump(tx)
      row == [decisionId |-> decisionId, projectId |-> projectId,
              cardId |-> a.cardId, commandId |-> a.commandId,
              state |-> "PENDING", urgency |-> a.urgency,
              options |-> a.options, artifactRefs |-> a.artifactRefs,
              requestedAt |-> now,
              expiresAt |-> a.expiresAt, fallbackOption |-> a.fallbackOption,
              claimedBy |-> Undefined, claimedUntil |-> NoTs,
              renderedOption |-> Undefined, renderedAt |-> NoTs,
              renderedBy |-> Undefined]
      tx2 == [tx1 EXCEPT !.decisions = Append(@, row)]
      tx3 == appendEvent(Bump(tx2),
               Event(generateId(tx2), projectId, "DecisionRequested", now,
                     a.commandId, a.cardId, decisionId, Undefined,
                     [urgency |-> a.urgency, optionKeys |-> a.options,
                      expiresAt |-> a.expiresAt,
                      fallbackOption |-> a.fallbackOption]))
  IN IF tx3.error # NoError THEN tx3 ELSE [tx3 EXCEPT !.ret = decisionId]

requestDecision(tx, now, user, a) ==
  LET auth == withAuth(tx, {"bot", "owner"}, user, a.projectId)
  IN IF auth.error # NoError THEN Throw(tx, auth.error)
     ELSE requestDecisionBody(tx, now, auth.projectId, a)

_httpRequestDecision(tx, now, a) == requestDecisionBody(tx, now, a.projectId, a)

\* fault: a lookup that takes the decisions of every project
NeverCrossProject(decision, auth) == FALSE

\* Cross-project check
CrossProject(decision, auth) == decision.projectId # auth.projectId

\* the event fields every decision event copies from the decision row
DecisionEvent(tx, projectId, type, now, d, payload) ==
  Event(generateId(tx), projectId, type, now, d.commandId, d.cardId,
        d.decisionId, Undefined, payload)

\* fault: a claim check that never finds the decision held
NeverHeld(decision, userId, now) == FALSE

\* claimDecision: the decision is held by another user whose lease is active
HeldByAnother(decision, userId, now) ==
  /\ decision.claimedBy # Undefined
  /\ decision.claimedBy # userId
  /\ decision.claimedUntil # NoTs
  /\ decision.claimedUntil > now

\* fault: a claim that refuses only EXPIRED decisions
ClosedIfExpired(decision) == decision.state = "EXPIRED"

\* claimDecision: the decision is neither PENDING nor CLAIMED
IsClosed(decision) ==
  decision.state # "PENDING" /\ decision.state # "CLAIMED"

claimDecision(tx, now, user, a) ==
  LET auth == withAuth(tx, {"operator", "owner"}, user, a.projectId)
      idx == IndexOf(tx.decisions, "decisionId", a.decisionId)
  IN IF auth.error # NoError THEN Throw(tx, auth.error)
     ELSE IF idx = 0 THEN Throw(tx, "NotFound")
     ELSE
     LET decision == tx.decisions[idx]
     IN IF CrossProject(decision, auth) THEN Throw(tx, "NotFound")
        ELSE IF IsClosed(decision)
          THEN Throw(tx, "NotClaimable: " \o decision.state)
        ELSE IF HeldByAnother(decision, auth.userId, now)
          THEN [tx EXCEPT !.ret = [status |-> "already_claimed",
                                   claimedBy |-> decision.claimedBy,
                                   claimedUntil |-> decision.claimedUntil]]
        ELSE
        LET claimedUntil == now + DECISION_CLAIM_MS
            tx1 == [tx EXCEPT !.decisions[idx] =
                      [decision EXCEPT !.state = "CLAIMED",
                                       !.claimedBy = auth.userId,
                                       !.claimedUntil = claimedUntil]]
            tx2 == appendEvent(Bump(tx1),
                     DecisionEvent(tx1, auth.projectId, "DecisionClaimed", now,
                       decision,
                       [claimedBy |-> auth.userId,
                        claimedUntil |-> claimedUntil]))
        IN IF tx2.error # NoError THEN tx2
           ELSE [tx2 EXCEPT !.ret = [status |-> "claimed",
                                     claimedUntil |-> claimedUntil]]

\* fault: a renewal open to every operator while the decision is CLAIMED
NotClaimed(decision, userId) == decision.state # "CLAIMED"

\* renewDecisionClaim: the decision is not claimed by the caller
NotClaimedByYou(decision, userId) ==
  decision.state # "CLAIMED" \/ decision.claimedBy # userId

renewDecisionClaim(tx, now, user, a) ==
  LET auth == withAuth(tx, {"operator", "owner"}, user, a.projectId)
      idx == IndexOf(tx.decisions, "decisionId", a.decisionId)
  IN IF auth.error # NoError THEN Throw(tx, auth.error)
     ELSE IF idx = 0 THEN Throw(tx, "NotFound")
     ELSE
     LET decision == tx.decisions[idx]
     IN IF CrossProject(decision, auth) THEN Throw(tx, "NotFound")
        ELSE IF NotClaimedByYou(decision, auth.userId)
          THEN Throw(tx, "NotYourClaim")
        ELSE
        LET claimedUntil == now + DECISION_CLAIM_MS
        IN [tx EXCEPT !.decisions[idx].claimedUntil = claimedUntil,
                      !.ret = [claimedUntil |-> claimedUntil]]

\* fault: a CAS check that lets every state through
AlwaysRenderable(decision) == TRUE

\* fault: a CAS check that stops only EXPIRED decisions
RenderableUnlessExpired(decision) == decision.state # "EXPIRED"

\* renderDecision, CAS check: only PENDING or CLAIMED are renderable
IsRenderable(decision) ==
  decision.state = "PENDING" \/ decision.state = "CLAIMED"

\* fault: a render that does not look at who holds the claim
AnyoneMayRender(decision, userId) == FALSE

\* renderDecision: the decision is CLAIMED and the caller does not own the claim
ClaimedByAnother(decision, userId) ==
  /\ decision.state = "CLAIMED"
  /\ decision.claimedBy # Undefined
  /\ decision.claimedBy # userId

renderDecision(tx, now, user, a) ==
  LET auth == withAuth(tx, {"operator", "owner"}, user, a.projectId)
      idx == IndexOf(tx.decisions, "decisionId", a.decisionId)
  IN IF auth.error # NoError THEN Throw(tx, auth.error)
     ELSE IF idx = 0 THEN Throw(tx, "NotFound")
     ELSE
     LET decision == tx.decisions[idx]
     IN IF CrossProject(decision, auth) THEN Throw(tx, "NotFound")
        ELSE IF ~IsRenderable(decision)
          THEN
          LET tx1 == appendEvent(Bump(tx),
                       DecisionEvent(tx, auth.projectId,
                         "DecisionRenderRejected", now, decision,
                         [attemptedOption |-> a.optionKey,
                          attemptedBy |-> auth.userId,
                          currentState |-> decision.state]))
          IN IF tx1.error # NoError THEN tx1
             ELSE [tx1 EXCEPT !.ret = [status |-> "rejected",
                                       reason |-> "already_resolved"]]
        ELSE IF ClaimedByAnother(decision, auth.userId)
          THEN
          LET tx1 == appendEvent(Bump(tx),
                       DecisionEvent(tx, auth.projectId,
                         "DecisionRenderRejected", now, decision,
                         [attemptedOption |-> a.optionKey,
                          attemptedBy |-> auth.userId,
                          currentState |-> decision.state,
                          reason |-> "claimed_by_another"]))
          IN IF tx1.error # NoError THEN tx1
             ELSE [tx1 EXCEPT !.ret = [status |-> "rejected",
                                       reason |-> "claimed_by_another"]]
        \* Validate option key exists
        ELSE IF ~SeqHas(decision.options, a.optionKey)
          THEN Throw(tx, "InvalidOption")
        ELSE
        \* Render
        LET tx1 == [tx EXCEPT !.decisions[idx] =
                      [decision EXCEPT !.state = "RENDERED",
                                       !.renderedOption = a.optionKey,
                                       !.renderedBy = auth.userId,
                                       !.renderedAt = now,
                                       !.claimedBy = Undefined,
                                       !.claimedUntil = NoTs]]
            tx2 == appendEvent(Bump(tx1),
                     DecisionEvent(tx1, auth.projectId, "DecisionRendered",
                       now, decision,
                       [selectedOption |-> a.optionKey,
                        renderedBy |-> auth.userId, note |-> a.note]))
        IN IF tx2.error # NoError THEN tx2
           ELSE [tx2 EXCEPT !.ret = [status |-> "rendered",
                                     optionKey |-> a.optionKey]]

----------------------------------------------------------------------------
(* Sweeper: sweeper.ts.  `now` is the sweep's argument; the card state     *)
(* machine it calls stamps its own Date.now(), which is `clk`.             *)

\* fault: a sweeper that looks at decisions in every state
AnyState(d) == TRUE

\* fault: a sweeper that leaves claimed decisions alone
PendingOnly(d) == d.state = "PENDING"

\* the decisions the sweeper looks at: PENDING and CLAIMED
IsOpen(d) == d.state = "PENDING" \/ d.state = "CLAIMED"

\* 1. Release retries
RECURSIVE releaseRetriesLoop(_, _, _, _)
releaseRetriesLoop(tx, clk, now, retryCards) ==
  IF retryCards = <<>> THEN tx
  ELSE
  LET card == Head(retryCards)
      tx1 == IF card.retryAtTs # NoTs /\ card.retryAtTs <= now
               THEN transitionCard(tx, clk,
                      [cardId |-> card.cardId, to |-> "READY",
                       reason |-> "retry timer fired", commandId |-> NoId,
                       decisionId |-> NoId, retryAtTs |-> NoTs])
               ELSE tx
  IN releaseRetriesLoop(tx1, clk, now, Tail(retryCards))

releaseRetries(tx, clk, now) ==
  releaseRetriesLoop(tx, clk, now,
    SelectSeq(tx.cards, LAMBDA c : c.state = "RETRY_SCHEDULED"))

\* the sweeper's card step: transition the linked card if it is waiting
transitionLinkedCard(tx, clk, decision, to, reason) ==
  LET cidx == IndexOf(tx.cards, "cardId", decision.cardId)
  IN IF cidx # 0 /\ tx.cards[cidx].state = "NEEDS_DECISION"
       THEN transitionCard(tx, clk,
              [cardId |-> decision.cardId, to |-> to, reason |-> reason,
               commandId |-> decision.commandId,
               decisionId |-> decision.decisionId, retryAtTs |-> NoTs])
       ELSE tx

\* fault: an automatic resolution that records no rendering
ResolvedWithoutOption(row, option, now) == [row EXCEPT !.state = "RENDERED"]

\* the patch of an automatic resolution: the fallback is rendered by the
\* sweeper at the sweep's instant
AutoResolved(row, option, now) ==
  [row EXCEPT !.state = "RENDERED",
              !.renderedOption = option,
              !.renderedBy = SWEEPER,
              !.renderedAt = now]

\* fault: an expiry event that always reports a fallback
AlwaysHadFallback(decision) == TRUE

\* the hadFallback flag of DecisionExpired
HadFallback(decision) == decision.fallbackOption # Undefined

\* 2. Expire decisions: the body of the loop for one expired decision
expireOne(tx, clk, now, decision) ==
  LET idx == IndexOf(tx.decisions, "decisionId", decision.decisionId)
      tx1 == appendEvent(Bump(tx),
               DecisionEvent(tx, decision.projectId, "DecisionExpired", now,
                 decision,
                 [expiresAt |-> decision.expiresAt,
                  hadFallback |-> HadFallback(decision)]))
  IN IF decision.fallbackOption # Undefined
       THEN
       \* Auto-resolve with fallback option
       LET tx2 == [tx1 EXCEPT !.decisions[idx] =
                     [AutoResolved(@, decision.fallbackOption, now)
                        EXCEPT !.claimedBy = Undefined,
                               !.claimedUntil = NoTs]]
           tx3 == appendEvent(Bump(tx2),
                    DecisionEvent(tx2, decision.projectId, "DecisionRendered",
                      now, decision,
                      [selectedOption |-> decision.fallbackOption,
                       renderedBy |-> SWEEPER,
                       note |-> "auto-resolved via fallback on expiration"]))
       IN transitionLinkedCard(tx3, clk, decision, "RUNNING",
            "decision expired, fallback applied")
       ELSE
       \* No fallback: mark decision EXPIRED, fail the card
       LET tx2 == [tx1 EXCEPT !.decisions[idx] =
                     [@ EXCEPT !.state = "EXPIRED",
                               !.claimedBy = Undefined,
                               !.claimedUntil = NoTs]]
       IN transitionLinkedCard(tx2, clk, decision, "FAILED",
            "decision expired, no fallback")

\* fault: a deadline test that takes a missing expires_at for a past one
DueOrOpenEnded(d, now) == d.expiresAt <= now

\* the deadline of decision d has passed at `now`
IsDue(d, now) == d.expiresAt # NoTs /\ d.expiresAt <= now

RECURSIVE expireLoop(_, _, _, _)
expireLoop(tx, clk, now, expired) ==
  IF expired = <<>> \/ tx.error # NoError THEN tx
  ELSE expireLoop(expireOne(tx, clk, now, Head(expired)), clk, now,
                  Tail(expired))

expireDecisions(tx, clk, now) ==
  LET openDecisions == SelectSeq(tx.decisions, IsOpen)
      expired == SelectSeq(openDecisions, LAMBDA d : IsDue(d, now))
  IN expireLoop(tx, clk, now, expired)

\* fault: a reclaim that leaves the claim fields on the row
ReleasedWithClaim(row) == [row EXCEPT !.state = "PENDING"]

\* the patch of a reclaim: back to PENDING with the claim fields cleared
Released(row) ==
  [row EXCEPT !.state = "PENDING",
              !.claimedBy = Undefined,
              !.claimedUntil = NoTs]

\* 3. Reclaim expired claims
RECURSIVE reclaimLoop(_, _, _)
reclaimLoop(tx, now, expiredClaims) ==
  IF expiredClaims = <<>> \/ tx.error # NoError THEN tx
  ELSE
  LET decision == Head(expiredClaims)
      idx == IndexOf(tx.decisions, "decisionId", decision.decisionId)
      tx1 == [tx EXCEPT !.decisions[idx] = Released(@)]
      tx2 == appendEvent(Bump(tx1),
               DecisionEvent(tx1, decision.projectId, "DecisionClaimExpired",
                 now, decision,
                 [previousClaimedBy |-> decision.claimedBy,
                  claimedUntil |-> decision.claimedUntil]))
  IN reclaimLoop(tx2, now, Tail(expiredClaims))

\* fault: a lease that ends at `now` counted as expired
LeaseOverOrEnding(d, now) == d.claimedUntil # NoTs /\ d.claimedUntil <= now

\* the lease of a claimed decision has run out at `now`
LeaseOver(d, now) == d.claimedUntil # NoTs /\ d.claimedUntil < now

reclaimExpiredClaims(tx, now) ==
  LET claimedDecisions == SelectSeq(tx.decisions,
                            LAMBDA d : d.state = "CLAIMED")
      expiredClaims == SelectSeq(claimedDecisions,
                         LAMBDA d : LeaseOver(d, now))
  IN reclaimLoop(tx, now, expiredClaims)

\* 4. Load shedding: the body of the inner loop for one "whenever" decision
shedOne(tx, clk, now, decision, count) ==
  LET idx == IndexOf(tx.decisions, "decisionId", decision.decisionId)
  IN IF decision.fallbackOption # Undefined
       THEN
       \* Auto-resolve with fallback
       LET tx1 == [tx EXCEPT !.decisions[idx] =
                     AutoResolved(@, decision.fallbackOption, now)]
           tx2 == appendEvent(Bump(tx1),
                    DecisionEvent(tx1, decision.projectId, "DecisionDeferred",
                      now, decision,
                      [reason |-> "load_shedding",
                       originalUrgency |-> "whenever",
                       action |-> "auto_resolved_with_fallback",
                       nowBacklog |-> count]))
           tx3 == appendEvent(Bump(tx2),
                    DecisionEvent(tx2, decision.projectId, "DecisionRendered",
                      now, decision,
                      [selectedOption |-> decision.fallbackOption,
                       renderedBy |-> SWEEPER,
                       note |-> "auto-resolved via load shedding"]))
       IN transitionLinkedCard(tx3, clk, decision, "RUNNING",
            "decision deferred, fallback applied")
       ELSE
       \* No fallback: extend expiresAt by 24h
       LET newExpiresAt ==
             (IF decision.expiresAt # NoTs THEN decision.expiresAt ELSE now)
               + DEFER_EXTENSION_MS
           tx1 == [tx EXCEPT !.decisions[idx].expiresAt = newExpiresAt]
       IN appendEvent(Bump(tx1),
            DecisionEvent(tx1, decision.projectId, "DecisionDeferred", now,
              decision,
              [reason |-> "load_shedding", originalUrgency |-> "whenever",
               action |-> "extended_expiry", newExpiresAt |-> newExpiresAt,
               nowBacklog |-> count]))

RECURSIVE shedLoop(_, _, _, _, _)
shedLoop(tx, clk, now, wheneverDecisions, count) ==
  IF wheneverDecisions = <<>> \/ tx.error # NoError THEN tx
  ELSE shedLoop(shedOne(tx, clk, now, Head(wheneverDecisions), count),
                clk, now, Tail(wheneverDecisions), count)

\* the keys of the Map nowBacklog, in insertion order
RECURSIVE ProjectOrder(_, _)
ProjectOrder(pendingNow, seen) ==
  IF pendingNow = <<>> THEN <<>>
  ELSE LET p == Head(pendingNow).projectId
       IN IF p \in seen
            THEN ProjectOrder(Tail(pendingNow), seen)
            ELSE <<p>> \o ProjectOrder(Tail(pendingNow), seen \cup {p})

\* fault: the backlog of all projects together
BacklogOfAll(pendingNow, projectId) == Len(pendingNow)

\* nowBacklog.get(projectId): the open "now" decisions of the project
BacklogOf(pendingNow, projectId) ==
  Len(SelectSeq(pendingNow, LAMBDA d : d.projectId = projectId))

\* fault: deferral gated by the emergency threshold
OverAlertThreshold(count) == count > NOW_BACKLOG_ALERT_THRESHOLD

\* the gate of the deferral
OverDeferThreshold(count) == count > NOW_BACKLOG_DEFER_THRESHOLD

RECURSIVE shedProjects(_, _, _, _, _)
shedProjects(tx, clk, now, projectIds, pendingNow) ==
  IF projectIds = <<>> \/ tx.error # NoError THEN tx
  ELSE
  LET projectId == Head(projectIds)
      count == BacklogOf(pendingNow, projectId)
      tx1 == IF OverDeferThreshold(count)
               THEN shedLoop(tx, clk, now,
                      SelectSeq(tx.decisions,
                        LAMBDA d : /\ d.projectId = projectId
                                   /\ d.state = "PENDING"
                                   /\ d.urgency = "whenever"),
                      count)
               ELSE tx
  IN shedProjects(tx1, clk, now, Tail(projectIds), pendingNow)

loadShed(tx, clk, now) ==
  LET pendingNow == SelectSeq(tx.decisions,
                      LAMBDA d : IsOpen(d) /\ d.urgency = "now")
  IN shedProjects(tx, clk, now, ProjectOrder(pendingNow, {}), pendingNow)

\* sweep(now?): the four phases in order, in one mutation
sweep(tx, clk, a) ==
  LET now == IF a.now # NoTs THEN a.now ELSE clk
      tx1 == releaseRetries(tx, clk, now)
      tx2 == expireDecisions(tx1, clk, now)
      tx3 == reclaimExpiredClaims(tx2, now)
  IN loadShed(tx3, clk, now)

\* emitEvent: public, bot/owner; forwards its arguments to appendEvent
emitEvent(tx, user, a) ==
  LET auth == withAuth(tx, {"bot", "owner"}, user, a.projectId)
  IN IF auth.error # NoError THEN Throw(tx, auth.error)
     ELSE appendEvent(tx,
            Event(a.eventId, a.projectId, a.type, a.ts, a.commandId, a.cardId,
                  a.decisionId, a.idempotencyKey, a.payload))

----------------------------------------------------------------------------
(* Seeds: the database at instant 0, built by the handlers themselves the  *)
(* way the repository's test suites build their fixtures.                  *)

Options == <<"approve", "reject">>

\* a card created and moved READY -> RUNNING
SeedRunningCard(tx, projectId) ==
  LET tx1 == createCard(tx, 0, [projectId |-> projectId, commandId |-> NoId,
                                priority |-> DEFAULT_PRIORITY])
  IN transitionCard(tx1, 0,
       [cardId |-> tx1.ret, to |-> "RUNNING", reason |-> "claimed",
        commandId |-> NoId, decisionId |-> NoId, retryAtTs |-> NoTs])

DecisionArgs(projectId, cardId, urgency, expiresAt, fallbackOption) ==
  [projectId |-> projectId, cardId |-> cardId, commandId |-> NoId,
   urgency |-> urgency, options |-> Options, artifactRefs |-> <<>>,
   expiresAt |-> expiresAt, fallbackOption |-> fallbackOption]

\* a RUNNING card asks for a decision and waits in NEEDS_DECISION
SeedWaiting(tx, projectId, urgency, expiresAt, fallbackOption) ==
  LET tx1 == SeedRunningCard(tx, projectId)
      cardId == tx1.cards[Len(tx1.cards)].cardId
      tx2 == requestDecision(tx1, 0, "bot",
               DecisionArgs(projectId, cardId, urgency, expiresAt,
                            fallbackOption))
  IN transitionCard(tx2, 0,
       [cardId |-> cardId, to |-> "NEEDS_DECISION",
        reason |-> "decision requested", commandId |-> NoId,
        decisionId |-> tx2.ret, retryAtTs |-> NoTs])

\* a second decision requested on the card that is already waiting
SeedSecond(tx, projectId, expiresAt, fallbackOption) ==
  requestDecision(tx, 0, "bot",
    DecisionArgs(projectId, tx.cards[Len(tx.cards)].cardId, "today",
                 expiresAt, fallbackOption))

\* the waiting decision, claimed by operator opA at instant 0
SeedClaimed(tx, projectId) ==
  claimDecision(tx, 0, "opA",
    [projectId |-> projectId,
     decisionId |-> tx.decisions[Len(tx.decisions)].decisionId])

\* n "now"-urgency decisions on a card id that names no card
RECURSIVE SeedBacklog(_, _, _)
SeedBacklog(tx, projectId, n) ==
  IF n = 0 THEN tx
  ELSE SeedBacklog(requestDecision(tx, 0, "bot",
                     DecisionArgs(projectId, NoId, "now", NoTs, Undefined)),
                   projectId, n - 1)

\* project P1, worked by two operators: one card, one or two decisions
SeedsP1 ==
  {SeedRunningCard(EmptyTx, "P1")}
  \cup {SeedWaiting(EmptyTx, "P1", "today", e, f) :
          e \in {NoTs, TickMs}, f \in {Undefined, "approve"}}
  \cup {SeedClaimed(SeedWaiting(EmptyTx, "P1", "today", TickMs, f), "P1") :
          f \in {Undefined, "approve"}}
  \cup {SeedSecond(SeedWaiting(EmptyTx, "P1", "today", TickMs, f[1]),
                   "P1", TickMs, f[2]) :
          f \in {<<Undefined, "approve">>, <<"approve", Undefined>>}}

\* project P2, worked by one operator, with a "now" backlog over the
\* defer threshold and one "whenever" decision
SeedsP2 ==
  {SeedWaiting(SeedBacklog(EmptyTx, "P2", NOW_BACKLOG_DEFER_THRESHOLD + 1),
               "P2", "whenever", e, f) :
     e \in {NoTs, TickMs}, f \in {Undefined, "approve"}}

InitFrom(seeds) ==
  /\ clock = 0
  /\ history = <<>>
  /\ \E seed \in seeds :
       /\ seed.error = NoError
       /\ nextId = seed.nextId
       /\ events = seed.events
       /\ cards = seed.cards
       /\ decisions = seed.decisions
       /\ commands = seed.commands
       /\ artifacts = seed.artifacts
       /\ projects = seed.projects
       /\ project_members = seed.members
  /\ runs = <<>>
  /\ inflight = <<>>

Init == InitFrom(SeedsP1 \cup SeedsP2)

----------------------------------------------------------------------------
(* Actions: one per mutation *)

\* the mutation commits what the handler wrote and returns; if the handler
\* threw, the transaction is rolled back and nothing is written
Commit(op, user, a, tx) ==
  /\ calls < MaxCalls
  /\ IF tx.error = NoError
       THEN /\ nextId' = tx.nextId
            /\ events' = tx.events
            /\ cards' = tx.cards
            /\ decisions' = tx.decisions
            /\ commands' = tx.commands
            /\ artifacts' = tx.artifacts
            /\ projects' = tx.projects
            /\ project_members' = tx.members
            /\ history' = Append(history, [op |-> op, user |-> user, args |-> a,
                                            ret |-> tx.ret, now |-> clock])
       ELSE UNCHANGED <<nextId, events, cards, decisions, commands, artifacts,
                        projects, project_members, history>>
  /\ UNCHANGED <<clock, runs, inflight>>

Operators == {"opA", "opB"}
OptionInputs == {"approve", "reject", "bogus"}
CardIds == {cards[i].cardId : i \in DOMAIN cards}
DecisionIds == {decisions[i].decisionId : i \in DOMAIN decisions}

Tick ==
  /\ clock < MaxTicks * TickMs
  /\ clock' = clock + TickMs
  /\ UNCHANGED <<nextId, events, cards, decisions, commands, artifacts, runs,
                 projects, project_members, inflight, history>>

TransitionCard ==
  \E c \in CardIds \cup {NoId}, to \in CardStates, r \in {NoTs, clock + TickMs} :
    LET a == [cardId |-> c, to |-> to, reason |-> "step", commandId |-> NoId,
              decisionId |-> NoId, retryAtTs |-> r]
    IN /\ r # NoTs => to = "RETRY_SCHEDULED"
       /\ Commit("transitionCard", Undefined, a, transitionCard(Tx, clock, a))

ClaimDecision ==
  \E u \in Operators, p \in Projects, d \in DecisionIds :
    LET a == [projectId |-> p, decisionId |-> d]
    IN Commit("claimDecision", u, a, claimDecision(Tx, clock, u, a))

RenewDecisionClaim ==
  \E u \in Operators, p \in Projects, d \in DecisionIds :
    LET a == [projectId |-> p, decisionId |-> d]
    IN Commit("renewDecisionClaim", u, a, renewDecisionClaim(Tx, clock, u, a))

RenderDecision ==
  \E u \in Operators, p \in Projects, d \in DecisionIds, k \in OptionInputs :
    LET a == [projectId |-> p, decisionId |-> d, optionKey |-> k,
              note |-> Undefined]
    IN Commit("renderDecision", u, a, renderDecision(Tx, clock, u, a))

Sweep ==
  \E now \in {NoTs, clock + TickMs} :
    LET a == [now |-> now]
    IN Commit("sweep", SWEEPER, a, sweep(Tx, clock, a))

Next ==
  \/ Tick
  \/ TransitionCard
  \/ ClaimDecision
  \/ RenewDecisionClaim
  \/ RenderDecision
  \/ Sweep

Spec == Init /\ [][Next]_vars

----------------------------------------------------------------------------
(* Load shedding: databases with the backlog at and over the defer         *)
(* threshold, several "whenever" decisions, and two projects.              *)

\* one more decision requested on the card that is already waiting
SeedAlso(tx, projectId, urgency, expiresAt, fallbackOption) ==
  requestDecision(tx, 0, "bot",
    DecisionArgs(projectId, tx.cards[Len(tx.cards)].cardId, urgency,
                 expiresAt, fallbackOption))

SeedsShed ==
  LET over == SeedBacklog(EmptyTx, "P2", NOW_BACKLOG_DEFER_THRESHOLD + 1)
      at == SeedBacklog(EmptyTx, "P2", NOW_BACKLOG_DEFER_THRESHOLD)
  IN \* backlog over the threshold, two "whenever" decisions on one card
     {SeedAlso(SeedWaiting(over, "P2", "whenever", NoTs, "approve"),
               "P2", "whenever", TickMs, Undefined)}
     \* backlog over the threshold, a "today" and a "whenever" decision
     \cup {SeedAlso(SeedWaiting(over, "P2", "today", NoTs, "approve"),
                    "P2", "whenever", TickMs, "approve")}
     \* backlog at the threshold
     \cup {SeedWaiting(at, "P2", "whenever", TickMs, "approve")}
     \* backlog over the threshold in P2 and under it in P1, the "whenever"
     \* decision in P1
     \cup {SeedWaiting(SeedBacklog(over, "P1", 1), "P1", "whenever", TickMs,
                       "approve")}

InitShed == InitFrom(SeedsShed)

\* the sweeper next to the operators' claims and renders
NextShed ==
  \/ Tick
  \/ ClaimDecision
  \/ RenderDecision
  \/ Sweep

SpecShed == InitShed /\ [][NextShed]_vars

----------------------------------------------------------------------------
(* The sweeper as a cron job: crons.interval("sweep", {minutes: 2}) calls  *)
(* sweep with no argument, so now is the wall clock, and the clock has     *)
(* moved on by the time of the next run. Operators act in between.         *)

\* one run of the cron job at the current instant; the next run is due one
\* interval later
CronSweep ==
  /\ clock < MaxTicks * TickMs
  /\ LET a == [now |-> NoTs]
         tx == sweep(Tx, clock, a)
     IN IF tx.error = NoError
          THEN /\ nextId' = tx.nextId
               /\ events' = tx.events
               /\ cards' = tx.cards
               /\ decisions' = tx.decisions
               /\ commands' = tx.commands
               /\ artifacts' = tx.artifacts
               /\ history' = Append(history,
                               [op |-> "sweep", user |-> SWEEPER, args |-> a,
                                ret |-> tx.ret, now |-> clock])
          ELSE UNCHANGED <<nextId, events, cards, decisions, commands,
                           artifacts, history>>
  /\ clock' = clock + TickMs
  /\ UNCHANGED <<runs, projects, project_members, inflight>>

NextCron ==
  \/ CronSweep
  \/ TransitionCard
  \/ ClaimDecision
  \/ RenewDecisionClaim
  \/ RenderDecision

\* the clock reaching the next run: CronSweep is the only step of NextCron
\* that moves the clock, it always moves it, and it is enabled whenever a
\* run is still due
CronDue == clock < MaxTicks * TickMs /\ clock' = clock + TickMs

\* the cron job keeps running: a run that is due is eventually made
SpecCron == Init /\ [][NextCron]_vars /\ WF_clock(CronDue)

----------------------------------------------------------------------------
(* Admission and the event log: the mutations that create rows and the     *)
(* public emitEvent, started from the empty database.                      *)

IdempotencyKeys == {Undefined, "k1"}

\* event ids a client of emitEvent may pass: ids of its own making, or the
\* id of an event that is already stored
ClientEventIds == {0 - 1, 0 - 2}
StoredEventIds == {events[i].eventId : i \in DOMAIN events}

\* payload strings: one that is clean, one that the denylist matches
PayloadTexts == {"hello"} \cup SECRET_PATTERNS

\* the arguments of emitEvent
EmitArgs ==
  {[projectId |-> p, eventId |-> e, type |-> "CommandStarted", ts |-> clock,
    commandId |-> NoId, cardId |-> NoId, decisionId |-> NoId,
    idempotencyKey |-> k, payload |-> [text |-> t]] :
     p \in Projects, e \in ClientEventIds \cup StoredEventIds,
     k \in IdempotencyKeys, t \in PayloadTexts}

RequestCommand ==
  \E u \in {"bot", "opB"}, p \in Projects, k \in IdempotencyKeys :
    LET a == [projectId |-> p, idempotencyKey |-> k, priority |-> NoTs]
    IN Commit("requestCommand", u, a, requestCommand(Tx, clock, u, a))

HttpRequestCommand ==
  \E p \in Projects, k \in IdempotencyKeys :
    LET a == [projectId |-> p, idempotencyKey |-> k, priority |-> NoTs]
    IN Commit("_httpRequestCommand", Undefined, a,
              _httpRequestCommand(Tx, clock, a))

CreateCard ==
  \E p \in Projects :
    LET a == [projectId |-> p, commandId |-> NoId,
              priority |-> DEFAULT_PRIORITY]
    IN Commit("createCard", Undefined, a, createCard(Tx, clock, a))

RequestDecision ==
  \E p \in Projects, c \in CardIds \cup {NoId} :
    LET a == DecisionArgs(p, c, "today", NoTs, Undefined)
    IN Commit("requestDecision", "bot", a, requestDecision(Tx, clock, "bot", a))

EmitEvent ==
  \E a \in EmitArgs :
    Commit("emitEvent", "bot", a, emitEvent(Tx, "bot", a))

InitLog == InitFrom({EmptyTx})

NextLog ==
  \/ RequestCommand
  \/ HttpRequestCommand
  \/ CreateCard
  \/ RequestDecision
  \/ EmitEvent

SpecLog == InitLog /\ [][NextLog]_vars

----------------------------------------------------------------------------
(* Queries: decisions.ts, adapter.ts, cards.ts.  A query reads the tables  *)
(* of tx and answers with an error or, in ret, with what it returns.       *)

\* what a query returns for "no such row"
Null == [null |-> TRUE]
ALL_ROLES == {"owner", "operator", "viewer", "bot"}

\* withAuthQ: the same as withAuth
withAuthQ(tx, roles, user, projectId) == withAuth(tx, roles, user, projectId)

Answer(error, ret) == [error |-> error, ret |-> ret]

\* the rows of sequence s whose field f is v
Where(s, f, v) == SelectSeq(s, LAMBDA r : r[f] = v)

urgencyOrder(urgency) ==
  CASE urgency = "now" -> 0
    [] urgency = "today" -> 1
    [] urgency = "whenever" -> 2

\* all.sort(...): by urgency, then by requestedAt ascending; the sort is
\* stable
RECURSIVE sortByUrgency(_)
sortByUrgency(all) ==
  IF all = <<>> THEN <<>>
  ELSE LET before(i, j) ==
             \/ urgencyOrder(all[i].urgency) < urgencyOrder(all[j].urgency)
             \/ /\ urgencyOrder(all[i].urgency) = urgencyOrder(all[j].urgency)
                /\ \/ all[i].requestedAt < all[j].requestedAt
                   \/ all[i].requestedAt = all[j].requestedAt /\ i <= j
           first == CHOOSE i \in DOMAIN all :
                      \A j \in DOMAIN all : before(i, j)
       IN <<all[first]>> \o sortByUrgency(RemoveAt(all, first))

\* pendingDecisions(projectId, urgency?)
pendingDecisions(tx, user, a) ==
  LET auth == withAuthQ(tx, ALL_ROLES, user, a.projectId)
      inState(state) ==
        SelectSeq(tx.decisions,
          LAMBDA d : /\ d.projectId = a.projectId
                     /\ d.state = state
                     /\ (a.urgency # Undefined => d.urgency = a.urgency))
      all == inState("PENDING") \o inState("CLAIMED")
  IN IF auth.error # NoError THEN Answer(auth.error, Null)
     ELSE Answer(NoError, sortByUrgency(all))

\* decisionDetail(projectId, decisionId): the decision and its context
\* bundle; the events of the chain are those whose correlationId is the
\* decision's commandId, which is what the decision events carry
decisionDetail(tx, user, a) ==
  LET auth == withAuthQ(tx, ALL_ROLES, user, a.projectId)
      idx == IndexOf(tx.decisions, "decisionId", a.decisionId)
  IN IF auth.error # NoError THEN Answer(auth.error, Null)
     ELSE IF idx = 0 THEN Answer(NoError, Null)
     ELSE
     LET decision == tx.decisions[idx]
         command == Where(tx.commands, "commandId", decision.commandId)
         refs == decision.artifactRefs
         manifests == [i \in DOMAIN refs |->
                         Where(tx.artifacts, "artifactId", refs[i])]
         found == SelectSeq(manifests, LAMBDA r : r # <<>>)
         chain == SelectSeq(tx.events,
                     LAMBDA e : /\ e.projectId = decision.projectId
                                /\ e.commandId = decision.commandId)
     IN IF CrossProject(decision, auth) THEN Answer(NoError, Null)
        ELSE Answer(NoError,
               [decision |-> decision,
                context |->
                  [command |-> IF command = <<>> THEN Null
                               ELSE [priority |-> Head(command).priority],
                   artifacts |-> [i \in DOMAIN found |-> Head(found[i])],
                   eventChain |-> [i \in DOMAIN chain |->
                                     [eventId |-> chain[i].eventId,
                                      type |-> chain[i].type,
                                      ts |-> chain[i].ts]]]])

\* awaitDecision(projectId, decisionId)
awaitDecision(tx, user, a) ==
  LET auth == withAuthQ(tx, {"bot", "owner"}, user, a.projectId)
      idx == IndexOf(tx.decisions, "decisionId", a.decisionId)
  IN IF auth.error # NoError THEN Answer(auth.error, Null)
     ELSE IF idx = 0 THEN Answer(NoError, Null)
     ELSE
     LET decision == tx.decisions[idx]
     IN IF CrossProject(decision, auth) THEN Answer(NoError, Null)
        ELSE Answer(NoError,
               [status |-> decision.state,
                selectedOption |-> decision.renderedOption,
                renderedBy |-> decision.renderedBy])

\* cardsByState(projectId, state): public, not auth-gated
cardsByState(tx, a) ==
  Answer(NoError,
    SelectSeq(tx.cards,
      LAMBDA c : c.projectId = a.projectId /\ c.state = a.state))

\* eventChain(projectId, correlationId): public, not auth-gated
eventChain(tx, a) ==
  Answer(NoError,
    SelectSeq(tx.events,
      LAMBDA e : e.projectId = a.projectId
                 /\ e.commandId = a.correlationId))

----------------------------------------------------------------------------
(* Two projects side by side: each has a card waiting on a decision, and   *)
(* operator opA and the bot are members of both.                           *)

SeedsScope ==
  {SeedWaiting(SeedWaiting(EmptyTx, "P1", "today", TickMs, f), "P2",
               "today", NoTs, Undefined) :
     f \in {Undefined, "approve"}}

InitScope == InitFrom(SeedsScope)

NextScope ==
  \/ Tick
  \/ ClaimDecision
  \/ RenewDecisionClaim
  \/ RenderDecision

SpecScope == InitScope /\ [][NextScope]_vars

----------------------------------------------------------------------------
(* Requests for decisions with every kind of option list: none, two        *)
(* options, the same key twice; and every kind of fallback option.         *)

OptionLists == {<<>>, Options, <<"approve", "approve">>}
FallbackInputs == {Undefined, "approve", "bogus"}

OptionArgs(p, options, fallbackOption) ==
  [DecisionArgs(p, NoId, "today", NoTs, fallbackOption)
     EXCEPT !.options = options]

RequestDecisionWith ==
  \E p \in Projects, options \in OptionLists, f \in FallbackInputs :
    LET a == OptionArgs(p, options, f)
    IN Commit("requestDecision", "bot", a,
              requestDecision(Tx, clock, "bot", a))

HttpRequestDecisionWith ==
  \E p \in Projects, options \in OptionLists, f \in FallbackInputs :
    LET a == OptionArgs(p, options, f)
    IN Commit("_httpRequestDecision", Undefined, a,
              _httpRequestDecision(Tx, clock, a))

NextOptions ==
  \/ RequestDecisionWith
  \/ HttpRequestDecisionWith

SpecOptions == InitLog /\ [][NextOptions]_vars

----------------------------------------------------------------------------
(* Projects and members: projectSetup.ts, projectMembers.ts                *)

\* initProject(projectId): the caller becomes the owner of a new project
initProject(tx, user, a) ==
  IF user = Undefined THEN Throw(tx, "Unauthenticated")
  ELSE IF a.projectId \in tx.projects THEN Throw(tx, "ProjectExists")
  ELSE [tx EXCEPT !.projects = @ \cup {a.projectId},
                  !.members = @ \cup {[userId |-> user,
                                       projectId |-> a.projectId,
                                       role |-> "owner"]},
                  !.ret = [projectId |-> a.projectId]]

\* the rows of user userId in project projectId
MemberRows(tx, userId, projectId) ==
  {m \in tx.members : m.userId = userId /\ m.projectId = projectId}

\* addMember(projectId, userId, role)
addMember(tx, user, a) ==
  LET auth == withAuth(tx, {"owner"}, user, a.projectId)
  IN IF auth.error # NoError THEN Throw(tx, auth.error)
     ELSE IF MemberRows(tx, a.userId, a.projectId) # {}
       THEN Throw(tx, "DuplicateMember")
     ELSE [tx EXCEPT !.members = @ \cup {[userId |-> a.userId,
                                          projectId |-> auth.projectId,
                                          role |-> a.role]},
                     !.ret = [userId |-> a.userId, role |-> a.role]]

\* fault: a removal that never takes the target for the last owner
NeverLastOwner(owners) == FALSE

\* Cannot remove the last owner
IsLastOwner(owners) == Cardinality(owners) <= 1

\* removeMember(projectId, userId)
removeMember(tx, user, a) ==
  LET auth == withAuth(tx, {"owner"}, user, a.projectId)
      found == MemberRows(tx, a.userId, a.projectId)
  IN IF auth.error # NoError THEN Throw(tx, auth.error)
     ELSE IF found = {} THEN Throw(tx, "MemberNotFound")
     ELSE
     LET member == CHOOSE m \in found : TRUE
         owners == {m \in tx.members :
                      m.projectId = a.projectId /\ m.role = "owner"}
     IN IF member.role = "owner" /\ IsLastOwner(owners)
          THEN Throw(tx, "CannotRemoveLastOwner")
          ELSE [tx EXCEPT !.members = @ \ {member},
                          !.ret = [removed |-> a.userId]]

Users == {"alice", "bob", "carol"}

\* a deployment without projects, and project P1 set up by alice, alone or
\* with bob as a second owner or as an operator
NoProjects == [EmptyTx EXCEPT !.projects = {}, !.members = {}]

SeedsMembers ==
  LET p1 == initProject(NoProjects, "alice", [projectId |-> "P1"])
  IN {NoProjects, p1}
       \cup {addMember(p1, "alice",
                [projectId |-> "P1", userId |-> "bob", role |-> r]) :
               r \in {"owner", "operator"}}

InitMembers == InitFrom(SeedsMembers)

InitProject ==
  \E u \in Users \cup {Undefined}, p \in Projects :
    LET a == [projectId |-> p]
    IN Commit("initProject", u, a, initProject(Tx, u, a))

AddMember ==
  \E u \in Users, p \in Projects, target \in Users,
     r \in {"owner", "operator"} :
    LET a == [projectId |-> p, userId |-> target, role |-> r]
    IN Commit("addMember", u, a, addMember(Tx, u, a))

RemoveMember ==
  \E u \in Users, p \in Projects, target \in Users :
    LET a == [projectId |-> p, userId |-> target]
    IN Commit("removeMember", u, a, removeMember(Tx, u, a))

NextMembers ==
  \/ InitProject
  \/ AddMember
  \/ RemoveMember

SpecMembers == InitMembers /\ [][NextMembers]_vars

----------------------------------------------------------------------------
(* Access: the public mutations called by every kind of caller: nobody     *)
(* (no identity), the owner, an operator, the bot, a viewer and a user who *)
(* is a member of no project.                                              *)

Callers == {Undefined, "own", "opA", "bot", "view", "eve"}

RequestCommandAs ==
  \E u \in Callers, p \in Projects :
    LET a == [projectId |-> p, idempotencyKey |-> Undefined,
              priority |-> NoTs]
    IN Commit("requestCommand", u, a, requestCommand(Tx, clock, u, a))

\* createCard takes no AuthContext; u is the identity of the session that
\* makes the call
CreateCardAs ==
  \E u \in Callers, p \in Projects :
    LET a == [projectId |-> p, commandId |-> NoId,
              priority |-> DEFAULT_PRIORITY]
    IN Commit("createCard", u, a, createCard(Tx, clock, a))

RequestDecisionAs ==
  \E u \in Callers, p \in Projects :
    LET a == DecisionArgs(p, NoId, "today", NoTs, Undefined)
    IN Commit("requestDecision", u, a, requestDecision(Tx, clock, u, a))

ClaimDecisionAs ==
  \E u \in Callers, p \in Projects, d \in DecisionIds :
    LET a == [projectId |-> p, decisionId |-> d]
    IN Commit("claimDecision", u, a, claimDecision(Tx, clock, u, a))

RenewDecisionClaimAs ==
  \E u \in Callers, p \in Projects, d \in DecisionIds :
    LET a == [projectId |-> p, decisionId |-> d]
    IN Commit("renewDecisionClaim", u, a, renewDecisionClaim(Tx, clock, u, a))

RenderDecisionAs ==
  \E u \in Callers, p \in Projects, d \in DecisionIds :
    LET a == [projectId |-> p, decisionId |-> d, optionKey |-> "approve",
              note |-> Undefined]
    IN Commit("renderDecision", u, a, renderDecision(Tx, clock, u, a))

NextAccess ==
  \/ RequestCommandAs
  \/ CreateCardAs
  \/ RequestDecisionAs
  \/ ClaimDecisionAs
  \/ RenewDecisionClaimAs
  \/ RenderDecisionAs

SpecAccess == Init /\ [][NextAccess]_vars

----------------------------------------------------------------------------
(* Reading the log: events.ts, listByTsRange.  The tests append events     *)
(* with ids and timestamps of their choice through appendEvent and query   *)
(* the log; a query is recorded in the history with what it returned.      *)

DEFAULT_LIMIT == 100
CURSOR_OVERFETCH == 1000

\* the first n elements of s
Take(s, n) == SubSeq(s, 1, IF n < Len(s) THEN n ELSE Len(s))

\* the rows in index order by_projectId_ts: by ts, rows of equal ts in
\* insertion order
RECURSIVE InIndexOrder(_)
InIndexOrder(rows) ==
  IF rows = <<>> THEN <<>>
  ELSE LET first == CHOOSE i \in DOMAIN rows :
                      \A j \in DOMAIN rows :
                        rows[i].ts < rows[j].ts
                          \/ (rows[i].ts = rows[j].ts /\ i <= j)
       IN <<rows[first]>> \o InIndexOrder(RemoveAt(rows, first))

\* listByTsRange(projectId, sinceTs, untilTs?, afterEventId?, limit?)
listByTsRange(evs, a) ==
  LET limit == IF a.limit # NoTs THEN a.limit ELSE DEFAULT_LIMIT
      inRange == SelectSeq(evs,
                   LAMBDA e : /\ e.projectId = a.projectId
                              /\ e.ts >= a.sinceTs
                              /\ (a.untilTs # NoTs => e.ts <= a.untilTs))
      rows == Take(InIndexOrder(inRange),
                   IF a.afterEventId # NoId THEN limit + CURSOR_OVERFETCH
                                            ELSE limit)
      \* Composite cursor: skip the events at the boundary timestamp that
      \* were already seen
      filtered == IF a.afterEventId # NoId
                    THEN SelectSeq(rows,
                           LAMBDA e : e.ts > a.sinceTs
                                      \/ e.eventId > a.afterEventId)
                    ELSE rows
  IN Take(filtered, limit)

\* an event as the tests make it
makeEvent(eventId, projectId, ts) ==
  Event(eventId, projectId, "CommandStarted", ts, NoId, NoId, NoId,
        Undefined, [text |-> "hello"])

QueryEventIds == {1, 2, 3}
QueryInstants == {0, TickMs}

\* logs of two events appended through appendEvent
SeedsQuery ==
  {appendEvent(appendEvent(EmptyTx, makeEvent(e[1], "P1", t1)),
               makeEvent(e[2], p2, t2)) :
     e \in {<<1, 2>>, <<2, 1>>}, t1 \in QueryInstants, t2 \in QueryInstants,
     p2 \in Projects}

InitQuery == InitFrom(SeedsQuery)

AppendEvent ==
  \E e \in QueryEventIds, p \in Projects, ts \in QueryInstants :
    LET ev == makeEvent(e, p, ts)
    IN Commit("appendEvent", Undefined, ev, appendEvent(Tx, ev))

ListByTsRange ==
  \E p \in Projects, since \in QueryInstants, until \in {NoTs, 0},
     after \in {NoId} \cup QueryEventIds, limit \in {NoTs, 1} :
    LET a == [projectId |-> p, sinceTs |-> since, untilTs |-> until,
              afterEventId |-> after, limit |-> limit]
    IN /\ calls < MaxCalls
       /\ history' = Append(history,
                        [op |-> "listByTsRange", user |-> Undefined,
                         args |-> a, ret |-> listByTsRange(events, a),
                         now |-> clock])
       /\ UNCHANGED <<clock, nextId, events, cards, decisions, commands,
                      artifacts, runs, projects, project_members, inflight>>

NextQuery ==
  \/ AppendEvent
  \/ ListByTsRange

SpecQuery == InitQuery /\ [][NextQuery]_vars

----------------------------------------------------------------------------
(* Projectors and replay: projectors.ts, design.md 19.3.  A read model is  *)
(* a record of the tables cards, commands and runs.                        *)

EmptyReadModel == [cards |-> <<>>, commands |-> <<>>, runs |-> <<>>]

\* projectCommandEvent: CommandRequested, CommandStarted, CommandSucceeded,
\* CommandFailed, CommandCanceled
projectCommandEvent(rm, ev) ==
  LET idx == IndexOf(rm.commands, "commandId", ev.commandId)
  IN \* Idempotency: skip if this or a later event was already processed
     IF idx # 0 /\ rm.commands[idx].lastEventId >= ev.eventId THEN rm
     ELSE IF ev.type = "CommandRequested" /\ idx = 0
       THEN [rm EXCEPT !.commands = Append(@,
               [commandId |-> ev.commandId, projectId |-> ev.projectId,
                status |-> "PENDING", lastEventId |-> ev.eventId,
                updatedTs |-> ev.ts,
                priority |-> IF "commandSpec" \in DOMAIN ev.payload
                                /\ ev.payload.commandSpec.priority # NoTs
                               THEN ev.payload.commandSpec.priority
                               ELSE 50])]
     ELSE IF idx = 0 THEN rm
     ELSE [rm EXCEPT !.commands[idx] =
             [@ EXCEPT !.lastEventId = ev.eventId,
                       !.updatedTs = ev.ts,
                       !.status =
                          CASE ev.type = "CommandStarted" -> "RUNNING"
                            [] ev.type = "CommandSucceeded" -> "SUCCEEDED"
                            [] ev.type = "CommandFailed" -> "FAILED"
                            [] ev.type = "CommandCanceled" -> "CANCELED"
                            [] OTHER -> @]]

\* projectRunEvent: CommandStarted creates the run, CommandSucceeded and
\* CommandFailed end it
projectRunEvent(rm, ev) ==
  LET idx == IndexOf(rm.runs, "runId", ev.runId)
  IN IF ev.type = "CommandStarted"
       THEN IF idx = 0
              THEN [rm EXCEPT !.runs = Append(@,
                      [runId |-> ev.runId, projectId |-> ev.projectId,
                       commandId |-> ev.commandId, status |-> "RUNNING",
                       startedTs |-> ev.ts, endedTs |-> NoTs,
                       attempt |-> IF "attempt" \in DOMAIN ev.payload
                                     THEN ev.payload.attempt ELSE 1,
                       error |-> Undefined])]
              ELSE rm
     ELSE IF ev.type = "CommandSucceeded" /\ idx # 0
       THEN [rm EXCEPT !.runs[idx] =
               [@ EXCEPT !.status = "SUCCEEDED", !.endedTs = ev.ts]]
     ELSE IF ev.type = "CommandFailed" /\ idx # 0
       THEN [rm EXCEPT !.runs[idx] =
               [@ EXCEPT !.status = "FAILED", !.endedTs = ev.ts,
                         !.error = IF "error" \in DOMAIN ev.payload
                                     THEN ev.payload.error ELSE Undefined]]
     ELSE rm

\* fault: a card projector that counts every transition as an attempt
projectCardEventCounting(rm, ev) ==
  LET idx == IndexOf(rm.cards, "cardId", ev.cardId)
  IN IF ev.type = "CardTransitioned" /\ idx # 0
       THEN [rm EXCEPT !.cards[idx] =
               [@ EXCEPT !.state = ev.payload.to, !.updatedTs = ev.ts,
                         !.attempt = @ + 1]]
       ELSE rm

\* projectCardEvent: CardCreated, CardTransitioned
projectCardEvent(rm, ev) ==
  LET idx == IndexOf(rm.cards, "cardId", ev.cardId)
  IN IF ev.type = "CardCreated"
       THEN IF idx = 0
              THEN [rm EXCEPT !.cards = Append(@,
                      [cardId |-> ev.cardId, projectId |-> ev.projectId,
                       state |-> "READY",
                       priority |-> IF "priority" \in DOMAIN ev.payload
                                      THEN ev.payload.priority ELSE 50,
                       attempt |-> 0, retryAtTs |-> NoTs,
                       createdTs |-> ev.ts, updatedTs |-> ev.ts])]
              ELSE rm
     ELSE IF ev.type = "CardTransitioned" /\ idx # 0
       THEN LET existing == rm.cards[idx]
            IN [rm EXCEPT !.cards[idx] =
                  [@ EXCEPT
                     !.state = ev.payload.to,
                     !.updatedTs = ev.ts,
                     !.attempt = IF ev.payload.to = "RUNNING"
                                   THEN existing.attempt + 1 ELSE @,
                     !.retryAtTs =
                        IF ev.payload.from = "RETRY_SCHEDULED" THEN NoTs
                        ELSE IF ev.payload.to = "RETRY_SCHEDULED"
                                /\ "retryAtTs" \in DOMAIN ev.payload
                          THEN ev.payload.retryAtTs
                          ELSE @]]
     ELSE rm

\* the projectors called one event at a time on the tables, as the tests
\* and the replay engine call them
ReadModel == [cards |-> cards, commands |-> commands, runs |-> runs]

\* the events the projectors are called with
ProjectorEvents ==
  LET Ev(type, e, ts, payload) ==
        [eventId |-> e, projectId |-> "P1", type |-> type, ts |-> ts,
         commandId |-> 0 - 11, cardId |-> 0 - 12, runId |-> 0 - 13,
         decisionId |-> NoId, idempotencyKey |-> Undefined,
         payload |-> payload]
      Moves == {"READY", "RUNNING", "RETRY_SCHEDULED"}
  IN UNION {
       {Ev("CardCreated", e, ts, [title |-> "card", priority |-> 20]),
        Ev("CommandRequested", e, ts,
           [title |-> "cmd", commandSpec |-> [priority |-> 20]]),
        Ev("CommandStarted", e, ts, [attempt |-> 2]),
        Ev("CommandSucceeded", e, ts, [text |-> "hello"]),
        Ev("CommandFailed", e, ts, [error |-> "boom"])}
       \cup {Ev("CardTransitioned", e, ts,
                 [from |-> f, to |-> t, reason |-> "step"]) :
               f \in Moves, t \in Moves}
       \cup {Ev("CardTransitioned", e, ts,
                 [from |-> "RUNNING", to |-> "RETRY_SCHEDULED",
                  reason |-> "retry", retryAtTs |-> TickMs])} :
       e \in ClientEventIds, ts \in {0, TickMs}}

\* a projector run as a mutation on the tables
Project(op, ev, rm) ==
  /\ calls < MaxCalls
  /\ cards' = rm.cards
  /\ commands' = rm.commands
  /\ runs' = rm.runs
  /\ history' = Append(history, [op |-> op, user |-> Undefined, args |-> ev,
                                  ret |-> Undefined, now |-> clock])
  /\ UNCHANGED <<clock, nextId, events, decisions, artifacts, projects,
                 project_members, inflight>>

ProjectCommandEvent ==
  \E ev \in ProjectorEvents :
    Project("projectCommandEvent", ev, projectCommandEvent(ReadModel, ev))

ProjectRunEvent ==
  \E ev \in ProjectorEvents :
    Project("projectRunEvent", ev, projectRunEvent(ReadModel, ev))

ProjectCardEvent ==
  \E ev \in ProjectorEvents :
    Project("projectCardEvent", ev, projectCardEvent(ReadModel, ev))

NextProjectors ==
  \/ ProjectCommandEvent
  \/ ProjectRunEvent
  \/ ProjectCardEvent

SpecProjectors == InitLog /\ [][NextProjectors]_vars

\* the event e1 comes before e2 in (ts, eventId) order
Before(e1, e2) ==
  e1.ts < e2.ts \/ (e1.ts = e2.ts /\ e1.eventId < e2.eventId)

\* the events in (ts asc, eventId asc) order
RECURSIVE InCursorOrder(_)
InCursorOrder(evs) ==
  IF evs = <<>> THEN <<>>
  ELSE LET first == CHOOSE i \in DOMAIN evs :
                      \A j \in DOMAIN evs :
                        j # i => Before(evs[i], evs[j])
                                  \/ (~Before(evs[j], evs[i]) /\ i < j)
       IN <<evs[first]>> \o InCursorOrder(RemoveAt(evs, first))

\* replayEvents, the paging loop: the events of the batches that the loop
\* reads with the composite cursor (cursorTs, cursorEventId), in the order it
\* reads them, until a batch is empty
RECURSIVE readBatches(_, _, _, _, _)
readBatches(evs, projectId, batchSize, cursorTs, cursorEventId) ==
  LET batch == listByTsRange(evs,
                 [projectId |-> projectId, sinceTs |-> cursorTs,
                  untilTs |-> NoTs, afterEventId |-> cursorEventId,
                  limit |-> batchSize])
  IN IF batch = <<>> THEN <<>>
     ELSE batch \o readBatches(evs, projectId, batchSize,
                               batch[Len(batch)].ts,
                               batch[Len(batch)].eventId)

\* replayEvents: each event of the slice through the projectors of the
\* commands and the cards read model, in cursor order
RECURSIVE applyEvents(_, _)
applyEvents(rm, evs) ==
  IF evs = <<>> THEN rm
  ELSE LET ev == Head(evs)
           rm1 == IF ev.commandId # NoId THEN projectCommandEvent(rm, ev)
                  ELSE rm
           rm2 == IF ev.cardId # NoId THEN projectCardEvent(rm1, ev) ELSE rm1
       IN applyEvents(rm2, Tail(evs))

replayEvents(evs) == applyEvents(EmptyReadModel, InCursorOrder(evs))

----------------------------------------------------------------------------
(* The card state machine on its own: cards are created and transitioned   *)
(* with every combination of optional arguments, and swept.                *)

\* a card waiting in RETRY_SCHEDULED for the retry time TickMs
SeedRetry(tx, projectId) ==
  LET tx1 == SeedRunningCard(tx, projectId)
  IN transitionCard(tx1, 0,
       [cardId |-> tx1.cards[Len(tx1.cards)].cardId,
        to |-> "RETRY_SCHEDULED", reason |-> "retry", commandId |-> NoId,
        decisionId |-> NoId, retryAtTs |-> TickMs])

SeedsCards ==
  {EmptyTx, SeedRunningCard(EmptyTx, "P1"), SeedRetry(EmptyTx, "P1")}
  \cup {SeedWaiting(EmptyTx, "P1", "today", TickMs, f) :
          f \in {Undefined, "approve"}}

InitCards == InitFrom(SeedsCards)

\* transitionCard with retryAtTs present or absent, whatever the target
TransitionCardAnyArgs ==
  \E c \in CardIds, to \in CardStates, r \in {NoTs, clock + TickMs} :
    LET a == [cardId |-> c, to |-> to, reason |-> "step", commandId |-> NoId,
              decisionId |-> NoId, retryAtTs |-> r]
    IN Commit("transitionCard", Undefined, a, transitionCard(Tx, clock, a))

NextCards ==
  \/ Tick
  \/ CreateCard
  \/ TransitionCardAnyArgs
  \/ Sweep

SpecCards == InitCards /\ [][NextCards]_vars

\* cards and commands are created and moved by requestCommand, createCard,
\* transitionCard and the sweeper
NextReplay ==
  \/ Tick
  \/ CreateCard
  \/ RequestCommand
  \/ TransitionCardAnyArgs
  \/ Sweep

SpecReplay == InitCards /\ [][NextReplay]_vars

----------------------------------------------------------------------------
(* Artifacts: artifacts.ts.  reportArtifact is a Convex action: its query  *)
(* _checkAuth, its blob upload and its mutation _createManifest are three  *)
(* separate steps, and steps of other calls may run between them.          *)

\* code unit of a character (TextEncoder on ASCII)
CharCode(ch) ==
  CASE ch = "h" -> 104 [] ch = "i" -> 105 [] ch = "a" -> 97
    [] ch = "G" -> 71 [] ch = "k" -> 107 [] ch = "=" -> 61

\* value of a character in the base64 alphabet ("=" is padding)
Base64Value(ch) ==
  CASE ch = "a" -> 26 [] ch = "G" -> 6 [] ch = "k" -> 36
    [] ch = "h" -> 33 [] ch = "i" -> 34 [] ch = "=" -> 0

\* atob on one group of four characters
atobGroup(g) ==
  LET n == Base64Value(g[1]) * 262144 + Base64Value(g[2]) * 4096
             + Base64Value(g[3]) * 64 + Base64Value(g[4])
      all == <<n \div 65536, (n \div 256) % 256, n % 256>>
  IN IF g[3] = "=" THEN SubSeq(all, 1, 1)
     ELSE IF g[4] = "=" THEN SubSeq(all, 1, 2)
     ELSE all

\* decodeContent(content, encoding): the bytes of the content
decodeContent(content, encoding) ==
  IF encoding = "base64"
    THEN atobGroup(content)
    ELSE [i \in DOMAIN content |-> CharCode(content[i])]

\* sha256Hex: a collision-free digest, represented by the bytes it digests
sha256Hex(bytes) == bytes

\* the contents a caller may report: "hi" as text, "hi" as base64, and the
\* text "aGk="
Contents ==
  { [content |-> <<"h", "i">>, encoding |-> "utf8"],
    [content |-> <<"a", "G", "k", "=">>, encoding |-> "base64"],
    [content |-> <<"a", "G", "k", "=">>, encoding |-> "utf8"] }

\* fault: a dedup lookup that matches the hash in any project
DuplicateInAnyProject(arts, projectId, contentSha256) ==
  LET existing == SelectSeq(arts, LAMBDA a : a.contentSha256 = contentSha256)
  IN IF existing = <<>> THEN NoId ELSE Head(existing).artifactId

\* _checkAuth, dedup part: the artifactId of the first manifest with this
\* hash in this project, or NoId
FindDuplicate(arts, projectId, contentSha256) ==
  LET existing == SelectSeq(arts, LAMBDA a : a.contentSha256 = contentSha256)
      inProject == SelectSeq(existing, LAMBDA a : a.projectId = projectId)
  IN IF inProject = <<>> THEN NoId ELSE Head(inProject).artifactId

\* _checkAuth(projectId, userId, contentSha256)
_checkAuth(arts, projectId, userId, contentSha256) ==
  LET ms == {m \in project_members :
               m.userId = userId /\ m.projectId = projectId}
  IN IF ms = {}
       THEN [authorized |-> FALSE, error |-> "NotAMember", duplicate |-> NoId]
       ELSE LET member == CHOOSE m \in ms : TRUE
            IN IF member.role # "owner" /\ member.role # "bot"
                 THEN [authorized |-> FALSE,
                       error |-> "InsufficientPermissions",
                       duplicate |-> NoId]
                 ELSE [authorized |-> TRUE, error |-> NoError,
                       duplicate |-> FindDuplicate(arts, projectId,
                                                   contentSha256)]

\* _createManifest: insert the manifest, append ArtifactProduced
_createManifest(tx, now, a) ==
  LET row == [artifactId |-> a.artifactId, projectId |-> a.projectId,
              contentSha256 |-> a.contentSha256, type |-> a.type,
              logicalName |-> a.logicalName, byteSize |-> a.byteSize,
              createdAt |-> now, eventId |-> a.eventId,
              storagePointer |-> [provider |-> "convex-files",
                                  key |-> a.storageId]]
      tx1 == [tx EXCEPT !.artifacts = Append(@, row)]
      tx2 == appendEvent(tx1,
               Event(a.eventId, a.projectId, "ArtifactProduced", now, NoId,
                     NoId, NoId, Undefined,
                     [artifactId |-> a.artifactId,
                      contentSha256 |-> a.contentSha256,
                      byteSize |-> a.byteSize, type |-> a.type,
                      logicalName |-> a.logicalName]))
  IN IF tx2.error # NoError THEN tx2
     ELSE [tx2 EXCEPT !.ret = [artifactId |-> a.artifactId]]

\* reportArtifact, steps 1-3: identity, decode + hash, auth + dedup check
ReportArtifactCheck ==
  \E u \in {"bot", "opB"}, p \in Projects, c \in Contents :
    LET a == [projectId |-> p, content |-> c.content,
              encoding |-> c.encoding, type |-> "text/plain",
              logicalName |-> "report"]
        bytes == decodeContent(a.content, a.encoding)
        contentSha256 == sha256Hex(bytes)
        check == _checkAuth(artifacts, p, u, contentSha256)
    IN /\ Len(history) + Len(inflight) < MaxCalls
       /\ IF ~check.authorized
            THEN UNCHANGED <<inflight, history>>
            ELSE IF check.duplicate # NoId
              THEN /\ history' = Append(history,
                        [op |-> "reportArtifact", user |-> u, args |-> a,
                         ret |-> [artifactId |-> check.duplicate,
                                  deduplicated |-> TRUE],
                         now |-> clock])
                   /\ UNCHANGED inflight
              ELSE /\ inflight' = Append(inflight,
                        [user |-> u, args |-> a, bytes |-> bytes,
                         contentSha256 |-> contentSha256, pc |-> "store",
                         storageId |-> NoId])
                   /\ UNCHANGED history
       /\ UNCHANGED <<clock, nextId, events, cards, decisions, commands,
                      artifacts, runs, projects, project_members>>

\* reportArtifact, step 4: upload the blob
ReportArtifactStore ==
  \E i \in DOMAIN inflight :
    /\ inflight[i].pc = "store"
    /\ inflight' = [inflight EXCEPT ![i].pc = "create",
                                    ![i].storageId = nextId]
    /\ nextId' = nextId + 1
    /\ UNCHANGED <<clock, events, cards, decisions, commands, artifacts,
                   runs, projects, project_members, history>>

\* reportArtifact, step 5: create the manifest, emit the event, return
ReportArtifactCreate ==
  \E i \in DOMAIN inflight :
    LET call == inflight[i]
        artifactId == generateId(Tx)
        tx1 == Bump(Tx)
        eventId == generateId(tx1)
        tx2 == _createManifest(Bump(tx1), clock,
                 [artifactId |-> artifactId, eventId |-> eventId,
                  projectId |-> call.args.projectId,
                  contentSha256 |-> call.contentSha256,
                  type |-> call.args.type,
                  logicalName |-> call.args.logicalName,
                  byteSize |-> Len(call.bytes),
                  storageId |-> call.storageId])
    IN /\ call.pc = "create"
       /\ inflight' = RemoveAt(inflight, i)
       /\ IF tx2.error = NoError
            THEN /\ nextId' = tx2.nextId
                 /\ events' = tx2.events
                 /\ artifacts' = tx2.artifacts
                 /\ history' = Append(history,
                      [op |-> "reportArtifact", user |-> call.user,
                       args |-> call.args,
                       ret |-> [artifactId |-> artifactId,
                                deduplicated |-> FALSE],
                       now |-> clock])
            ELSE UNCHANGED <<nextId, events, artifacts, history>>
       /\ UNCHANGED <<clock, cards, decisions, commands, runs, projects,
                      project_members>>

NextArtifacts ==
  \/ ReportArtifactCheck
  \/ ReportArtifactStore
  \/ ReportArtifactCreate

SpecArtifacts == InitLog /\ [][NextArtifacts]_vars

----------------------------------------------------------------------------
(* The context bundle: two projects, each with a command, its card and an  *)
(* artifact manifest; the bot requests decisions that name a command and   *)
(* artifacts, and the members read them.                                   *)

SeedManifest(tx, projectId) ==
  LET artifactId == generateId(tx)
      tx1 == Bump(tx)
      eventId == generateId(tx1)
      tx2 == Bump(tx1)
      bytes == decodeContent(<<"h", "i">>, "utf8")
  IN _createManifest(Bump(tx2), 0,
       [artifactId |-> artifactId, eventId |-> eventId,
        projectId |-> projectId, contentSha256 |-> sha256Hex(bytes),
        type |-> "text/plain", logicalName |-> "report",
        byteSize |-> Len(bytes), storageId |-> generateId(tx2)])

SeedCommand(tx, projectId) ==
  requestCommand(tx, 0, "bot",
    [projectId |-> projectId, idempotencyKey |-> Undefined,
     priority |-> NoTs])

SeedsBundle ==
  {SeedManifest(SeedManifest(SeedCommand(SeedCommand(EmptyTx, "P1"), "P2"),
                             "P1"), "P2")}

InitBundle == InitFrom(SeedsBundle)

CommandIds == {commands[i].commandId : i \in DOMAIN commands}
ArtifactIds == {artifacts[i].artifactId : i \in DOMAIN artifacts}

RequestDecisionOn ==
  \E p \in Projects, m \in CommandIds \cup {NoId},
     refs \in {<<>>} \cup {<<x>> : x \in ArtifactIds} :
    LET a == [DecisionArgs(p, NoId, "today", NoTs, Undefined)
                EXCEPT !.commandId = m, !.artifactRefs = refs]
    IN Commit("requestDecision", "bot", a,
              requestDecision(Tx, clock, "bot", a))

NextBundle ==
  \/ RequestDecisionOn
  \/ ClaimDecision

SpecBundle == InitBundle /\ [][NextBundle]_vars

----------------------------------------------------------------------------
(* Properties of the decision lifecycle and the card state machine         *)

\* positions in the log of the events of one type about one decision
EventsOf(type, d) ==
  {i \in DOMAIN events : events[i].type = type /\ events[i].decisionId = d}

\* the row of decision d
Row(d) == decisions[IndexOf(decisions, "decisionId", d)]

\* the step commits a call of mutation op
Committed(op) == history' # history /\ last'.op = op

\* the events the step appends
Appended == SubSeq(events', Len(events) + 1, Len(events'))

\* positions in the history of the renderDecision calls on decision d
RendersOf(d) ==
  {i \in DOMAIN history :
     history[i].op = "renderDecision" /\ history[i].args.decisionId = d}

\* C1: for every decision, the log holds at most one DecisionRendered event
\* carrying its decision id, whatever renderDecision calls, sweeper expiries
\* and load-shedding resolutions have been interleaved.
C1_AtMostOneRendered ==
  \A d \in DecisionIds : Cardinality(EventsOf("DecisionRendered", d)) <= 1

\* a decision resolved once, by the sweeper or an operator, that an operator
\* then tried to render again
C1_Witness ==
  \E d \in DecisionIds :
    /\ Cardinality(EventsOf("DecisionRendered", d)) = 1
    /\ \E i \in EventsOf("DecisionRendered", d),
          j \in EventsOf("DecisionRenderRejected", d) : i < j

\* C2: when n >= 2 renderDecision calls with valid option keys are committed
\* on a decision that was PENDING (never claimed, never touched by the
\* sweeper), the first returns "rendered" and each of the other n-1 returns
\* "rejected"; the log then holds one DecisionRendered and n-1
\* DecisionRenderRejected for the decision, and the row carries the option
\* and the caller of the winning call.
C2_RenderRace ==
  \A d \in DecisionIds :
    LET calls_d == RendersOf(d)
        n == Cardinality(calls_d)
        won == {i \in calls_d : history[i].ret.status = "rendered"}
        lost == {i \in calls_d : history[i].ret.status = "rejected"}
    IN (/\ n >= 2
        /\ \A t \in {"DecisionClaimed", "DecisionClaimExpired",
                     "DecisionExpired", "DecisionDeferred"} :
              EventsOf(t, d) = {}
        /\ \A i \in calls_d : SeqHas(Row(d).options, history[i].args.optionKey))
       => /\ Cardinality(won) = 1
          /\ Cardinality(lost) = n - 1
          /\ \A w \in won :
               /\ \A i \in calls_d : w <= i
               /\ Row(d).state = "RENDERED"
               /\ Row(d).renderedOption = history[w].args.optionKey
               /\ Row(d).renderedBy = history[w].user
          /\ Cardinality(EventsOf("DecisionRendered", d)) = 1
          /\ Cardinality(EventsOf("DecisionRenderRejected", d)) = n - 1

\* two operators race with different valid keys; the second loses
C2_Witness ==
  /\ Len(history) >= 2
  /\ history[1].op = "renderDecision" /\ history[2].op = "renderDecision"
  /\ history[1].args.decisionId = history[2].args.decisionId
  /\ history[1].user # history[2].user
  /\ history[1].args.optionKey = "approve"
  /\ history[2].args.optionKey = "reject"
  /\ history[1].ret.status = "rendered"
  /\ history[2].ret.status = "rejected"
  /\ Row(history[1].args.decisionId).renderedOption = "approve"
  /\ EventsOf("DecisionClaimed", history[1].args.decisionId) = {}

\* the transition table as the specification prints it
TransitionTable ==
  { <<"READY", "RUNNING">>, <<"RUNNING", "DONE">>,
    <<"RUNNING", "NEEDS_DECISION">>, <<"RUNNING", "FAILED">>,
    <<"RUNNING", "RETRY_SCHEDULED">>, <<"NEEDS_DECISION", "RUNNING">>,
    <<"NEEDS_DECISION", "FAILED">>, <<"RETRY_SCHEDULED", "READY">> }

\* the state of card c just before the k-th event the step appends: the `to`
\* of the latest CardTransitioned the step appended for c before it, or the
\* state the card had when the step began
RECURSIVE StateBefore(_, _)
StateBefore(c, k) ==
  IF k = 1 THEN cards[IndexOf(cards, "cardId", c)].state
  ELSE IF Appended[k - 1].type = "CardTransitioned" /\ Appended[k - 1].cardId = c
    THEN Appended[k - 1].payload.to
    ELSE StateBefore(c, k - 1)

C3_Step ==
  /\ \A k \in DOMAIN Appended :
       Appended[k].type = "CardTransitioned" =>
         /\ Appended[k].payload.from = StateBefore(Appended[k].cardId, k)
         /\ <<Appended[k].payload.from, Appended[k].payload.to>>
              \in TransitionTable
  /\ \A i \in DOMAIN cards :
       cards[i].state \in {"DONE", "FAILED"} =>
         /\ cards'[i] = cards[i]
         /\ \A k \in DOMAIN Appended :
              ~(Appended[k].type = "CardTransitioned"
                /\ Appended[k].cardId = cards[i].cardId)

\* C3: every CardTransitioned event appended by transitionCard, called
\* directly or by the sweeper, has `from` equal to the card's state just
\* before the call and (from, to) in the transition table; a card that is
\* DONE or FAILED never changes again and gets no further CardTransitioned.
C3_CardTransitions == [][C3_Step]_vars

\* the sweeper failed a card, and a later direct call moved nothing
C3_Witness ==
  /\ Len(history) = 2
  /\ history[1].op = "sweep"
  /\ \E i \in DOMAIN cards :
       /\ cards[i].state = "FAILED"
       /\ \E k \in DOMAIN events :
            /\ events[k].type = "CardTransitioned"
            /\ events[k].cardId = cards[i].cardId
            /\ events[k].payload.from = "NEEDS_DECISION"
            /\ events[k].payload.to = "FAILED"
            /\ events[k].decisionId # NoId

\* the `now` of the sweep the step commits
SweepNow == IF last'.args.now # NoTs THEN last'.args.now ELSE clock

\* decision d is open and its expiry has passed at `now`
Due(d, now) ==
  /\ d.state \in {"PENDING", "CLAIMED"}
  /\ d.expiresAt # NoTs
  /\ d.expiresAt <= now

\* the sweep resolves the due decision in row i by its fallback, or expires it
ExpiryOutcome(i) ==
  LET d == decisions[i]
      after == decisions'[i]
  IN /\ (d.fallbackOption # Undefined) <=>
          (/\ after.state = "RENDERED"
           /\ after.renderedOption = d.fallbackOption
           /\ after.renderedBy = "system:sweeper")
     /\ (d.fallbackOption = Undefined) <=> (after.state = "EXPIRED")

\* the card linked to the decision in row i was waiting and is now in the
\* state that the decision in row j asks for
CardLeftAs(i, j) ==
  LET c == IndexOf(cards, "cardId", decisions[i].cardId)
  IN (c # 0 /\ cards[c].state = "NEEDS_DECISION") =>
       cards'[c].state = IF decisions[j].fallbackOption # Undefined
                           THEN "RUNNING" ELSE "FAILED"

\* the first row, in creation order, of a due decision linked to the same
\* card as the decision in row i
FirstDueOnCard(i, now) ==
  CHOOSE j \in DOMAIN decisions :
    /\ Due(decisions[j], now)
    /\ decisions[j].cardId = decisions[i].cardId
    /\ \A k \in DOMAIN decisions :
         (Due(decisions[k], now) /\ decisions[k].cardId = decisions[i].cardId)
           => j <= k

\* C4 as stated: every PENDING or CLAIMED decision with expires_at <= now at
\* the start of sweep(now) ends RENDERED by "system:sweeper" with its fallback
\* iff it had one, else EXPIRED, and its card, if in NEEDS_DECISION, is
\* RUNNING when the decision had a fallback and FAILED when it had none.
C4_AsStated ==
  [][Committed("sweep") =>
       \A i \in DOMAIN decisions :
         Due(decisions[i], SweepNow) => ExpiryOutcome(i) /\ CardLeftAs(i, i)]_vars

\* C4, amended: same outcome for the decision; the card, if in NEEDS_DECISION,
\* has left it for the state asked for by the first due decision linked to
\* it, so RUNNING with fallback and FAILED without for a decision that is the
\* first or the only due decision of its card.
C4_SweeperExpiry ==
  [][Committed("sweep") =>
       \A i \in DOMAIN decisions :
         Due(decisions[i], SweepNow) =>
           ExpiryOutcome(i) /\ CardLeftAs(i, FirstDueOnCard(i, SweepNow))]_vars

\* two due decisions on one card, the second claimed under a lease that is
\* still active when the sweep runs: the first expires and fails the card,
\* the second is resolved by its fallback and the card stays FAILED
C4_Witness ==
  /\ Len(history) = 2
  /\ history[1].op = "claimDecision" /\ history[1].ret.status = "claimed"
  /\ history[2].op = "sweep" /\ history[2].args.now = NoTs
  /\ history[1].ret.claimedUntil > history[2].now
  /\ \E i, j \in DOMAIN decisions, c \in DOMAIN cards :
       /\ i < j
       /\ decisions[i].cardId = cards[c].cardId
       /\ decisions[j].cardId = cards[c].cardId
       /\ decisions[j].decisionId = history[1].args.decisionId
       /\ decisions[i].state = "EXPIRED"
       /\ decisions[j].state = "RENDERED"
       /\ decisions[j].renderedBy = "system:sweeper"
       /\ cards[c].state = "FAILED"

C5_Step ==
  Committed("claimDecision") =>
    LET c == last'
        i == IndexOf(decisions, "decisionId", c.args.decisionId)
        d == decisions[i]
    IN IF d.claimedBy # Undefined /\ d.claimedBy # c.user /\ d.claimedUntil > clock
         THEN /\ c.ret.status = "already_claimed"
              /\ c.ret.claimedBy = d.claimedBy
              /\ c.ret.claimedUntil = d.claimedUntil
              /\ decisions' = decisions
              /\ events' = events
         ELSE /\ c.ret.status = "claimed"
              /\ c.ret.claimedUntil = clock + 300000
              /\ decisions' = [decisions EXCEPT ![i] =
                                 [d EXCEPT !.state = "CLAIMED",
                                           !.claimedBy = c.user,
                                           !.claimedUntil = clock + 300000]]
              /\ Len(Appended) = 1
              /\ Appended[1].type = "DecisionClaimed"
              /\ Appended[1].decisionId = d.decisionId

\* two users never both obtain "claimed" on a decision while the lease of the
\* first is active
C5_NoOverlap ==
  \A i, j \in DOMAIN history :
    (/\ i < j
     /\ history[i].op = "claimDecision" /\ history[j].op = "claimDecision"
     /\ history[i].args.decisionId = history[j].args.decisionId
     /\ history[i].user # history[j].user
     /\ history[i].ret.status = "claimed"
     /\ history[j].ret.status = "claimed")
    => history[j].now >= history[i].ret.claimedUntil

\* C5: claimDecision by B on a PENDING or CLAIMED decision returns
\* already_claimed with the holder and the lease end, changing no row and
\* appending no event, exactly when another user holds it with
\* claimed_until > now; in every other case it sets CLAIMED, claimed_by = B,
\* claimed_until = now + 5 minutes and appends one DecisionClaimed.  So two
\* claimants never both get "claimed" while the first lease is active.
C5_ClaimDecision == [][C5_Step]_vars /\ []C5_NoOverlap

\* opB is turned away while opA's lease is active and takes the decision
\* over once the lease has lapsed, before any sweep reclaimed it
C5_Witness ==
  /\ Len(history) = 2
  /\ history[1].op = "claimDecision" /\ history[2].op = "claimDecision"
  /\ history[1].user = "opB" /\ history[2].user = "opB"
  /\ history[1].args.decisionId = history[2].args.decisionId
  /\ history[1].ret.status = "already_claimed"
  /\ history[1].ret.claimedBy = "opA"
  /\ history[2].ret.status = "claimed"
  /\ Row(history[2].args.decisionId).claimedBy = "opB"
  /\ EventsOf("DecisionClaimExpired", history[2].args.decisionId) = {}

\* the calls of renderDecision on the decision in row i that pass withAuth
\* and the project check, as <<user, args>>
RenderCalls(i) ==
  {<<u, [projectId |-> decisions[i].projectId,
         decisionId |-> decisions[i].decisionId,
         optionKey |-> k, note |-> Undefined]>> :
     u \in {v \in Operators :
              withAuth(Tx, {"operator", "owner"}, v,
                       decisions[i].projectId).error = NoError},
     k \in OptionInputs}

\* the step leaves every decision row as it was and appends one
\* DecisionRenderRejected about decision d
OnlyRejectionRecorded(d) ==
  /\ decisions' = decisions
  /\ Len(Appended) = 1
  /\ Appended[1].type = "DecisionRenderRejected"
  /\ Appended[1].decisionId = d

C6_Step ==
  Committed("renderDecision") =>
    LET c == last'
        d == decisions[IndexOf(decisions, "decisionId", c.args.decisionId)]
    IN /\ (d.state = "CLAIMED" /\ d.claimedBy # c.user) =>
            /\ c.ret.status = "rejected"
            /\ OnlyRejectionRecorded(d.decisionId)
            /\ Appended[1].payload.reason = "claimed_by_another"
       /\ (d.state = "CLAIMED" /\ c.ret.status = "rendered") =>
            /\ c.user = d.claimedBy
            /\ Appended[1].type = "DecisionRendered"
            /\ Appended[1].payload.renderedBy = d.claimedBy

\* whatever option key a non-claimant passes, the call returns "rejected"
C6_Returns ==
  \A i \in DOMAIN decisions : \A call \in RenderCalls(i) :
    (decisions[i].state = "CLAIMED" /\ decisions[i].claimedBy # call[1]) =>
      LET tx == renderDecision(Tx, clock, call[1], call[2])
      IN tx.error = NoError /\ tx.ret.status = "rejected"

\* C6: renderDecision by a caller who is not claimed_by on a CLAIMED decision
\* never renders it: it returns "rejected", appends one
\* DecisionRenderRejected with reason "claimed_by_another" and leaves the row
\* unchanged; so a DecisionRendered an operator produces for a CLAIMED
\* decision has rendered_by equal to the decision's claimed_by.
C6_NonClaimantRejected == [][C6_Step]_vars /\ []C6_Returns

\* opB tries a valid option on the decision opA holds
C6_Witness ==
  /\ last.op = "renderDecision"
  /\ last.user = "opB"
  /\ last.args.optionKey = "reject"
  /\ last.ret.status = "rejected"
  /\ last.ret.reason = "claimed_by_another"
  /\ Row(last.args.decisionId).state = "CLAIMED"
  /\ Row(last.args.decisionId).claimedBy = "opA"

C7_Step ==
  Committed("renderDecision") =>
    LET c == last'
        d == decisions[IndexOf(decisions, "decisionId", c.args.decisionId)]
    IN d.state \in {"RENDERED", "EXPIRED"} =>
         /\ c.ret.status = "rejected"
         /\ OnlyRejectionRecorded(d.decisionId)
         /\ Appended[1].payload.attemptedOption = c.args.optionKey
         /\ Appended[1].payload.attemptedBy = c.user
         /\ Appended[1].payload.currentState = d.state

\* the call is a normal result, not an error, for valid and invalid keys
C7_Returns ==
  \A i \in DOMAIN decisions : \A call \in RenderCalls(i) :
    decisions[i].state \in {"RENDERED", "EXPIRED"} =>
      LET tx == renderDecision(Tx, clock, call[1], call[2])
      IN tx.error = NoError /\ tx.ret.status = "rejected"

\* C7: renderDecision on a RENDERED or EXPIRED decision returns
\* {status: "rejected"} as a committed result, appends exactly one
\* DecisionRenderRejected with the attempted option, attempted_by = caller
\* and current_state, and leaves the row unchanged, whether or not the
\* option key is one of the decision's options.
C7_ResolvedRejected == [][C7_Step]_vars /\ []C7_Returns

\* an operator passes an option key the EXPIRED decision does not have
C7_Witness ==
  /\ Len(history) = 2
  /\ history[1].op = "sweep"
  /\ history[2].op = "renderDecision"
  /\ history[2].args.optionKey = "bogus"
  /\ history[2].ret.status = "rejected"
  /\ Row(history[2].args.decisionId).state = "EXPIRED"
  /\ events[Len(events)].type = "DecisionRenderRejected"
  /\ events[Len(events)].payload.attemptedOption = "bogus"
  /\ events[Len(events)].payload.currentState = "EXPIRED"

----------------------------------------------------------------------------
(* Properties of the event log and of command admission                    *)

\* no two events share an idempotency key
KeysInjective ==
  \A i, j \in DOMAIN events :
    (/\ events[i].idempotencyKey # Undefined
     /\ events[i].idempotencyKey = events[j].idempotencyKey) => i = j

\* an append that passes the denylist and carries a stored key returns the
\* row of the stored event and writes nothing, whatever its event id,
\* project and payload
DuplicateKeyReturnsStored ==
  \A a \in EmitArgs : \A i \in DOMAIN events :
    (/\ a.idempotencyKey # Undefined
     /\ events[i].idempotencyKey = a.idempotencyKey
     /\ a.payload.text \notin SECRET_PATTERNS) =>
      LET tx == emitEvent(Tx, "bot", a)
      IN /\ tx.error = NoError
         /\ tx.ret = i
         /\ tx.events = events

LogAppendOnly ==
  [][/\ Len(events') >= Len(events)
     /\ SubSeq(events', 1, Len(events)) = events]_vars

\* C9: the log is append-only with unique event ids: an append through any
\* path, emitEvent included, whose event_id is already present returns the
\* existing event or fails, so no two rows of the log share an event_id.
C9_UniqueEventIds ==
  \A i, j \in DOMAIN events : events[i].eventId = events[j].eventId => i = j

\* the calls in the history that request a command with idempotency key k
RequestsWithKey(k) ==
  {i \in DOMAIN history :
     /\ history[i].op \in {"requestCommand", "_httpRequestCommand"}
     /\ history[i].args.idempotencyKey = k}

\* C10: requestCommand is idempotent in its idempotency_key: after two calls
\* with the same key the log holds exactly one CommandRequested and exactly
\* one CardCreated for the request, and exactly one command row and one card
\* row exist.
C10_RequestCommandIdempotent ==
  \A k \in IdempotencyKeys \ {Undefined} :
    LET reqs == RequestsWithKey(k)
        commandIds == {history[i].ret.commandId : i \in reqs}
        cardIds == {history[i].ret.cardId : i \in reqs}
    IN Cardinality(reqs) >= 2 =>
         /\ Cardinality({i \in DOMAIN events :
                           /\ events[i].type = "CommandRequested"
                           /\ events[i].idempotencyKey = k}) = 1
         /\ Cardinality({i \in DOMAIN events :
                           /\ events[i].type = "CardCreated"
                           /\ events[i].commandId \in commandIds}) = 1
         /\ Cardinality({i \in DOMAIN commands :
                           commands[i].commandId \in commandIds}) = 1
         /\ Cardinality({i \in DOMAIN cards :
                           cards[i].cardId \in cardIds}) = 1

----------------------------------------------------------------------------
(* Properties of artifacts                                                 *)

\* C11: for every (project_id, content_sha256) at most one artifact manifest
\* exists after any interleaving of reportArtifact calls, also when the
\* check, blob-store and manifest-insert steps of two calls with identical
\* bytes in one project overlap.
C11_OneManifestPerHash ==
  \A i, j \in DOMAIN artifacts :
    (/\ artifacts[i].projectId = artifacts[j].projectId
     /\ artifacts[i].contentSha256 = artifacts[j].contentSha256) => i = j

\* a report whose hash has a manifest in its project when it is checked
\* returns that manifest's artifactId with deduplicated = true and appends
\* no ArtifactProduced; identical bytes in another project get a manifest of
\* their own
ReportDeduplicates ==
  [][/\ \A k \in DOMAIN Appended :
          Appended[k].type = "ArtifactProduced" =>
            /\ Len(Appended) = 1
            /\ last'.ret.deduplicated = FALSE
            /\ last'.ret.artifactId = Appended[k].payload.artifactId
     /\ (history' # history /\ last'.ret.deduplicated) =>
          /\ events' = events
          /\ artifacts' = artifacts
          /\ \E i \in DOMAIN artifacts :
               /\ artifacts[i].artifactId = last'.ret.artifactId
               /\ artifacts[i].projectId = last'.args.projectId
               /\ artifacts[i].contentSha256 =
                    sha256Hex(decodeContent(last'.args.content,
                                            last'.args.encoding))]_vars

----------------------------------------------------------------------------
(* Properties of card rows                                                 *)

\* C12: in every reachable state a card has retry_at_ts set if and only if
\* its state is RETRY_SCHEDULED, whatever optional arguments the
\* transitionCard calls carry.
C12_RetryAtIffScheduled ==
  \A i \in DOMAIN cards :
    (cards[i].retryAtTs # NoTs) <=> (cards[i].state = "RETRY_SCHEDULED")

\* the half of C12 that the code keeps: retry_at_ts is set only while the
\* card is RETRY_SCHEDULED
RetryAtOnlyWhenScheduled ==
  \A i \in DOMAIN cards :
    (cards[i].retryAtTs # NoTs) => (cards[i].state = "RETRY_SCHEDULED")

\* positions in the log of the CardTransitioned events into RUNNING of card c
EntriesToRunning(c) ==
  {k \in DOMAIN events :
     /\ events[k].type = "CardTransitioned"
     /\ events[k].cardId = c
     /\ events[k].payload.to = "RUNNING"}

----------------------------------------------------------------------------
(* Properties of decision rows                                             *)

\* the rendering fields of a decision row are all set
HasRendering(d) ==
  /\ d.renderedOption # Undefined
  /\ d.renderedBy # Undefined
  /\ d.renderedAt # NoTs

\* the rendering fields of a decision row are all absent
NoRendering(d) ==
  /\ d.renderedOption = Undefined
  /\ d.renderedBy = Undefined
  /\ d.renderedAt = NoTs

\* C14: in every reachable state a decision has rendered_option, with
\* rendered_by and rendered_at, set if and only if its state is RENDERED,
\* whichever path set the state (operator render, expiry with or without
\* fallback, load shedding, claim, reclaim).
C14_RenderedIffRendering ==
  \A i \in DOMAIN decisions :
    IF decisions[i].state = "RENDERED"
      THEN HasRendering(decisions[i])
      ELSE NoRendering(decisions[i])

\* a decision resolved by load shedding, whose rendering is the fallback
C14_Witness ==
  \E i \in DOMAIN decisions :
    /\ decisions[i].state = "RENDERED"
    /\ decisions[i].renderedBy = SWEEPER
    /\ decisions[i].renderedOption = decisions[i].fallbackOption
    /\ EventsOf("DecisionDeferred", decisions[i].decisionId) # {}

\* C15: in every reachable state claimed_by and claimed_until are both set
\* when the decision is CLAIMED and both absent when it is PENDING,
\* RENDERED or EXPIRED: every path out of CLAIMED clears them.
C15_ClaimFieldsIffClaimed ==
  \A i \in DOMAIN decisions :
    IF decisions[i].state = "CLAIMED"
      THEN decisions[i].claimedBy # Undefined /\ decisions[i].claimedUntil # NoTs
      ELSE decisions[i].claimedBy = Undefined /\ decisions[i].claimedUntil = NoTs

\* a decision that was claimed, reclaimed by the sweeper, and is now resolved
\* or waiting again without claim fields
C15_Witness ==
  \E i \in DOMAIN decisions :
    /\ decisions[i].state \in {"PENDING", "RENDERED", "EXPIRED"}
    /\ EventsOf("DecisionClaimed", decisions[i].decisionId) # {}
    /\ EventsOf("DecisionClaimExpired", decisions[i].decisionId) # {}

----------------------------------------------------------------------------
(* Progress of the sweeper                                                 *)

\* the decision ids of the seeded databases
SeedDecisionIds ==
  UNION {{seed.decisions[i].decisionId : i \in DOMAIN seed.decisions} :
           seed \in SeedsP1 \cup SeedsP2}

\* the instant of the last cron run within the modelled time
LastRun == (MaxTicks - 1) * TickMs

\* decision d is open with a deadline that a modelled cron run reaches
AwaitsExpiry(d) ==
  \E i \in DOMAIN decisions :
    /\ decisions[i].decisionId = d
    /\ decisions[i].state \in {"PENDING", "CLAIMED"}
    /\ decisions[i].expiresAt # NoTs
    /\ decisions[i].expiresAt <= LastRun

\* decision d has reached a terminal state
Resolved(d) ==
  \E i \in DOMAIN decisions :
    /\ decisions[i].decisionId = d
    /\ decisions[i].state \in {"RENDERED", "EXPIRED"}

\* C16: with the sweeper running again and again while time advances, every
\* PENDING or CLAIMED decision that has an expires_at eventually reaches
\* RENDERED or EXPIRED, whatever operators do in between and however long
\* the now-urgency backlog of its project stays above the defer threshold.
C16_EventuallyResolved ==
  \A d \in SeedDecisionIds : AwaitsExpiry(d) ~> Resolved(d)

\* the part of C16 that the code keeps: a decision whose urgency is not
\* "whenever" is never deferred, and is resolved once its deadline is reached
ResolvedUnlessWhenever ==
  \A d \in SeedDecisionIds :
    (AwaitsExpiry(d) /\ Row(d).urgency # "whenever") ~> Resolved(d)

----------------------------------------------------------------------------
(* Properties of the sweeper's phases                                      *)

\* positions in the log of the events of the given type that the step
\* appends for decision d
AppendedOf(type, d) ==
  {k \in (Len(events) + 1)..Len(events') :
     events'[k].type = type /\ events'[k].decisionId = d}

\* the events a sweep appends for the due decision in row i: one
\* DecisionExpired first, then DecisionRendered by the sweeper iff there is a
\* fallback, then the transition of the card out of NEEDS_DECISION
ExpiryEvents(i) ==
  LET d == decisions[i]
      expired == AppendedOf("DecisionExpired", d.decisionId)
      rendered == AppendedOf("DecisionRendered", d.decisionId)
      moved == AppendedOf("CardTransitioned", d.decisionId)
      c == IndexOf(cards, "cardId", d.cardId)
  IN /\ Cardinality(expired) = 1
     /\ \A e \in expired :
          /\ events'[e].payload.hadFallback = (d.fallbackOption # Undefined)
          /\ \A r \in rendered : e < r
          /\ \A m \in moved : e < m
     /\ Cardinality(rendered) = IF d.fallbackOption # Undefined THEN 1 ELSE 0
     /\ \A r \in rendered :
          /\ events'[r].payload.renderedBy = "system:sweeper"
          /\ events'[r].payload.selectedOption = d.fallbackOption
     /\ Cardinality(moved) <= 1
     /\ \A m \in moved :
          /\ events'[m].cardId = d.cardId
          /\ events'[m].payload.from = "NEEDS_DECISION"
          /\ events'[m].payload.to =
               IF d.fallbackOption # Undefined THEN "RUNNING" ELSE "FAILED"
     /\ (c # 0 /\ cards[c].state = "NEEDS_DECISION"
           /\ FirstDueOnCard(i, SweepNow) = i) => moved # {}

\* a decision has one DecisionExpired at most, and an EXPIRED decision has
\* no DecisionRendered
ExpiredOnce ==
  \A d \in DecisionIds :
    /\ Cardinality(EventsOf("DecisionExpired", d)) <= 1
    /\ Row(d).state = "EXPIRED" => EventsOf("DecisionRendered", d) = {}

\* C17: for each decision expired by a sweep exactly one DecisionExpired with
\* hadFallback = (fallback is set) is appended, before the DecisionRendered
\* (only with a fallback, renderedBy "system:sweeper") and before the
\* CardTransitioned of the linked card out of NEEDS_DECISION; a decision
\* expired without fallback gets no DecisionRendered then or later.
C17_ExpiryEventOrder ==
  /\ [][Committed("sweep") =>
          \A i \in DOMAIN decisions :
            Due(decisions[i], SweepNow) => ExpiryEvents(i)]_vars
  /\ []ExpiredOnce

\* a sweep expired a decision with a fallback and one without: the log holds
\* DecisionExpired, DecisionRendered, CardTransitioned in this order for the
\* first, and an operator's later render of the second was rejected
C17_Witness ==
  /\ \E d \in DecisionIds :
       \E e \in EventsOf("DecisionExpired", d),
          r \in EventsOf("DecisionRendered", d), m \in DOMAIN events :
         /\ events[e].payload.hadFallback
         /\ events[m].type = "CardTransitioned"
         /\ events[m].decisionId = d
         /\ e < r /\ r < m
  /\ \E d \in DecisionIds :
       /\ Row(d).state = "EXPIRED"
       /\ EventsOf("DecisionRenderRejected", d) # {}

\* the number of open now-urgency decisions of project p that the sweep
\* at `now` does not expire: the backlog its load-shedding phase counts
NowBacklog(p, now) ==
  Cardinality({i \in DOMAIN decisions :
                 /\ decisions[i].projectId = p
                 /\ decisions[i].urgency = "now"
                 /\ decisions[i].state \in {"PENDING", "CLAIMED"}
                 /\ ~Due(decisions[i], now)})

\* the load-shedding phase of the sweep at `now` resolves decision d once
\* it is PENDING: whenever-urgency with a fallback, in a project whose
\* backlog is over the defer threshold
ShedResolves(d, now) ==
  /\ d.urgency = "whenever"
  /\ d.fallbackOption # Undefined
  /\ NowBacklog(d.projectId, now) > NOW_BACKLOG_DEFER_THRESHOLD

\* the claim of the decision in row i is released by the step, with one
\* DecisionClaimExpired recording the previous claimant and lease
ClaimReleased(i) ==
  LET d == decisions[i]
      released == AppendedOf("DecisionClaimExpired", d.decisionId)
  IN /\ decisions'[i].claimedBy = Undefined
     /\ decisions'[i].claimedUntil = NoTs
     /\ Cardinality(released) = 1
     /\ \A k \in released :
          /\ events'[k].payload.previousClaimedBy = d.claimedBy
          /\ events'[k].payload.claimedUntil = d.claimedUntil

\* the claim of the decision in row i is left as it was by the step
ClaimKept(i) ==
  /\ decisions'[i].state = "CLAIMED"
  /\ decisions'[i].claimedBy = decisions[i].claimedBy
  /\ decisions'[i].claimedUntil = decisions[i].claimedUntil
  /\ AppendedOf("DecisionClaimExpired", decisions[i].decisionId) = {}

\* after the step no decision is CLAIMED under a lease that ended before now
NoStaleClaim(now) ==
  \A i \in DOMAIN decisions' :
    ~(decisions'[i].state = "CLAIMED" /\ decisions'[i].claimedUntil < now)

\* C18 as stated: after sweep(now) no decision is CLAIMED with
\* claimed_until < now; each such decision not expired in the same sweep is
\* PENDING with its claim fields cleared and one DecisionClaimExpired
\* recording the previous claimed_by and claimed_until; those with
\* claimed_until >= now keep CLAIMED and their claimant.
C18_AsStated ==
  [][Committed("sweep") =>
       /\ NoStaleClaim(SweepNow)
       /\ \A i \in DOMAIN decisions :
            (decisions[i].state = "CLAIMED" /\ ~Due(decisions[i], SweepNow)) =>
              IF decisions[i].claimedUntil < SweepNow
                THEN decisions'[i].state = "PENDING" /\ ClaimReleased(i)
                ELSE ClaimKept(i)]_vars

\* C18, amended: the same, except that a reclaimed decision which the
\* load-shedding phase of the same sweep resolves (whenever-urgency with a
\* fallback, project backlog over the defer threshold) ends RENDERED instead
\* of PENDING, still with its claim fields cleared and one
\* DecisionClaimExpired.
C18_ReclaimExpiredClaims ==
  [][Committed("sweep") =>
       /\ NoStaleClaim(SweepNow)
       /\ \A i \in DOMAIN decisions :
            (decisions[i].state = "CLAIMED" /\ ~Due(decisions[i], SweepNow)) =>
              IF decisions[i].claimedUntil < SweepNow
                THEN /\ decisions'[i].state =
                          IF ShedResolves(decisions[i], SweepNow)
                            THEN "RENDERED" ELSE "PENDING"
                     /\ ClaimReleased(i)
                ELSE ClaimKept(i)]_vars

\* a sweep released the lapsed claim of a whenever decision and its load
\* shedding resolved the decision at once
C18_Witness ==
  /\ last.op = "sweep"
  /\ \E d \in DecisionIds :
       \E c \in EventsOf("DecisionClaimExpired", d),
          r \in EventsOf("DecisionRendered", d) :
         /\ c < r
         /\ events[c].ts = events[r].ts
         /\ Row(d).state = "RENDERED"
         /\ Row(d).claimedBy = Undefined

\* decision d is PENDING when the load-shedding phase of the sweep at `now`
\* runs: it was PENDING, or CLAIMED under a lapsed lease, and is not expired
PendingAtShed(d, now) ==
  /\ ~Due(d, now)
  /\ \/ d.state = "PENDING"
     \/ d.state = "CLAIMED" /\ d.claimedUntil < now

\* the card of decision d is in NEEDS_DECISION when the load-shedding phase
\* runs: it was waiting and no expiry of the same sweep moved it
WaitingAtShed(d, now) ==
  LET c == IndexOf(cards, "cardId", d.cardId)
  IN /\ c # 0
     /\ cards[c].state = "NEEDS_DECISION"
     /\ \A j \in DOMAIN decisions :
          decisions[j].cardId = d.cardId => ~Due(decisions[j], now)

\* load shedding resolves the decision in row i by its fallback
ShedByFallback(i, now) ==
  LET d == decisions[i]
      after == decisions'[i]
      deferred == AppendedOf("DecisionDeferred", d.decisionId)
      rendered == AppendedOf("DecisionRendered", d.decisionId)
  IN /\ after.state = "RENDERED"
     /\ after.renderedOption = d.fallbackOption
     /\ after.renderedBy = "system:sweeper"
     /\ Cardinality(deferred) = 1 /\ Cardinality(rendered) = 1
     /\ \A k \in deferred :
          /\ events'[k].payload.action = "auto_resolved_with_fallback"
          /\ \A r \in rendered : k < r
     /\ \A r \in rendered :
          /\ events'[r].payload.selectedOption = d.fallbackOption
          /\ events'[r].payload.renderedBy = "system:sweeper"
     /\ WaitingAtShed(d, now) =>
          cards'[IndexOf(cards, "cardId", d.cardId)].state = "RUNNING"

\* load shedding extends the expiry of the decision in row i by 24 hours
ShedByExtension(i, now) ==
  LET d == decisions[i]
      after == decisions'[i]
      deferred == AppendedOf("DecisionDeferred", d.decisionId)
      newExpiresAt == (IF d.expiresAt # NoTs THEN d.expiresAt ELSE now)
                        + 24 * 60 * 60 * 1000
  IN /\ after.state = "PENDING"
     /\ after.expiresAt = newExpiresAt
     /\ NoRendering(after)
     /\ Cardinality(deferred) = 1
     /\ \A k \in deferred :
          /\ events'[k].payload.action = "extended_expiry"
          /\ events'[k].payload.newExpiresAt = newExpiresAt
     /\ AppendedOf("DecisionRendered", d.decisionId) = {}

\* C19: when a project's count of now-urgency decisions in PENDING or CLAIMED
\* exceeds 2 at the load-shedding phase of a sweep, every PENDING
\* whenever-urgency decision of the project is processed: with a fallback it
\* becomes RENDERED with the fallback by "system:sweeper", DecisionDeferred
\* {auto_resolved_with_fallback} precedes DecisionRendered and the linked
\* card, if in NEEDS_DECISION, becomes RUNNING; without a fallback it stays
\* PENDING with expires_at = (old expires_at, or now) + 24 h and
\* DecisionDeferred{extended_expiry} is appended.
C19_LoadShedding ==
  [][Committed("sweep") =>
       \A i \in DOMAIN decisions :
         (/\ NowBacklog(decisions[i].projectId, SweepNow) > 2
          /\ decisions[i].urgency = "whenever"
          /\ PendingAtShed(decisions[i], SweepNow)) =>
            IF decisions[i].fallbackOption # Undefined
              THEN ShedByFallback(i, SweepNow)
              ELSE ShedByExtension(i, SweepNow)]_vars

\* one sweep over a backlog of three resolved a whenever decision by its
\* fallback, moved the card to RUNNING, and extended another whenever
\* decision that has no fallback
C19_Witness ==
  /\ last.op = "sweep"
  /\ \E i, j \in DOMAIN decisions, c \in DOMAIN cards :
       /\ decisions[i].cardId = cards[c].cardId
       /\ cards[c].state = "RUNNING"
       /\ decisions[i].state = "RENDERED"
       /\ \E k \in EventsOf("DecisionDeferred", decisions[i].decisionId) :
            events[k].payload.action = "auto_resolved_with_fallback"
       /\ decisions[j].state = "PENDING"
       /\ decisions[j].expiresAt = TickMs + DEFER_EXTENSION_MS
       /\ \E k \in EventsOf("DecisionDeferred", decisions[j].decisionId) :
            events[k].payload.action = "extended_expiry"

\* the decision in row i is left alone by the load-shedding phase: no
\* DecisionDeferred for it, and its row is what expiry and reclaim make it
LeftByShed(i, now) ==
  LET d == decisions[i]
      after == decisions'[i]
  IN /\ AppendedOf("DecisionDeferred", d.decisionId) = {}
     /\ (~Due(d, now) /\ ~(d.state = "CLAIMED" /\ d.claimedUntil < now)) =>
          after = d
     /\ (~Due(d, now) /\ d.state = "CLAIMED" /\ d.claimedUntil < now) =>
          after = [d EXCEPT !.state = "PENDING", !.claimedBy = Undefined,
                            !.claimedUntil = NoTs]
     /\ Due(d, now) => after.state \in {"RENDERED", "EXPIRED"}
                         /\ after.expiresAt = d.expiresAt

\* the step appends no DecisionDeferred for project p
NoDeferral(p) ==
  \A k \in (Len(events) + 1)..Len(events') :
    events'[k].type = "DecisionDeferred" => events'[k].projectId # p

\* C20: load shedding is gated per project and touches only PENDING
\* whenever-urgency decisions: if a project's now-urgency backlog is at most
\* 2, the sweep appends no DecisionDeferred for it and load shedding changes
\* none of its decisions, whatever the backlog of other projects; load
\* shedding never modifies a CLAIMED decision or one of urgency now or today.
C20_LoadSheddingFrame ==
  [][Committed("sweep") =>
       /\ \A p \in Projects :
            NowBacklog(p, SweepNow) <= 2 => NoDeferral(p)
       /\ \A i \in DOMAIN decisions :
            (\/ NowBacklog(decisions[i].projectId, SweepNow) <= 2
             \/ decisions[i].urgency \in {"now", "today"}
             \/ ~PendingAtShed(decisions[i], SweepNow))
              => LeftByShed(i, SweepNow)]_vars

\* a sweep deferred nothing in project P1, whose whenever decision is still
\* PENDING as requested, while P2 holds three open now decisions
C20_Witness ==
  /\ last.op = "sweep"
  /\ \E i \in DOMAIN decisions :
       /\ decisions[i].projectId = "P1"
       /\ decisions[i].urgency = "whenever"
       /\ decisions[i].state = "PENDING"
       /\ decisions[i].expiresAt = TickMs
       /\ last.now < TickMs
  /\ Cardinality({i \in DOMAIN decisions :
                    /\ decisions[i].projectId = "P2"
                    /\ decisions[i].urgency = "now"
                    /\ decisions[i].state = "PENDING"}) = 3
  /\ \A k \in DOMAIN events : events[k].type # "DecisionDeferred"

\* why the decision of C16 is never reached: a sweep that finds the backlog
\* over the threshold leaves a PENDING whenever decision without fallback
\* PENDING with a deadline at least 24 hours after the sweep's now, so it is
\* not due at the next run either, and the same holds again after that run
DeadlineRecedes ==
  [][Committed("sweep") =>
       \A i \in DOMAIN decisions :
         (/\ NowBacklog(decisions[i].projectId, SweepNow) > 2
          /\ decisions[i].urgency = "whenever"
          /\ decisions[i].fallbackOption = Undefined
          /\ PendingAtShed(decisions[i], SweepNow)) =>
            /\ decisions'[i].state = "PENDING"
            /\ decisions'[i].expiresAt >= SweepNow + DEFER_EXTENSION_MS
            /\ ~Due(decisions'[i], SweepNow + TickMs)]_vars

----------------------------------------------------------------------------
(* Properties of the projectors                                            *)

\* the projected fields of the card rows and of the command rows
CardFields(rows) ==
  {[cardId |-> rows[i].cardId, state |-> rows[i].state,
    attempt |-> rows[i].attempt, retryAtTs |-> rows[i].retryAtTs,
    priority |-> rows[i].priority] : i \in DOMAIN rows}

CommandFields(rows) ==
  {[commandId |-> rows[i].commandId, status |-> rows[i].status,
    priority |-> rows[i].priority] : i \in DOMAIN rows}

\* C21: replaying the events that the live operations appended, in
\* (ts, event_id) order through the projectors into an empty read model,
\* yields rows equal to the live rows in every projected field (card state,
\* attempt, retry_at_ts, priority; command status and priority).
C21_ReplayEquivalence ==
  LET rm == replayEvents(events)
  IN /\ CardFields(rm.cards) = CardFields(cards)
     /\ CommandFields(rm.commands) = CommandFields(commands)

\* the part of C21 that the code keeps: the replayed cards agree with the
\* live cards in state, attempt and priority
ReplayAgreesOnCards ==
  LET Kept(rows) == {[cardId |-> rows[i].cardId, state |-> rows[i].state,
                      attempt |-> rows[i].attempt,
                      priority |-> rows[i].priority] : i \in DOMAIN rows}
  IN Kept(replayEvents(events).cards) = Kept(cards)

\* the projector that the call in history entry h ran, applied to rm
Reapplied(h, rm) ==
  CASE h.op = "projectCommandEvent" -> projectCommandEvent(rm, h.args)
    [] h.op = "projectRunEvent" -> projectRunEvent(rm, h.args)
    [] h.op = "projectCardEvent" -> projectCardEvent(rm, h.args)
    [] OTHER -> rm

\* C22: each projector (command, run, card) is idempotent for every event
\* type it handles: applying the same event a second time in a row leaves
\* the rows exactly as they are after the first application.
C22_ProjectorsIdempotent ==
  calls > 0 => Reapplied(last, ReadModel) = ReadModel

\* the part of C22 that the code keeps: the command and the run projector
\* are idempotent, and so is the card projector for CardCreated and for a
\* CardTransitioned whose target is not RUNNING
IdempotentUnlessToRunning ==
  (/\ calls > 0
   /\ ~(/\ last.op = "projectCardEvent"
        /\ last.args.type = "CardTransitioned"
        /\ last.args.payload.to = "RUNNING"))
    => Reapplied(last, ReadModel) = ReadModel

----------------------------------------------------------------------------
(* Properties of the log queries                                           *)

\* event e is in the qualifying set of the listByTsRange call with
\* arguments a
Qualifies(e, a) ==
  /\ e.projectId = a.projectId
  /\ a.sinceTs <= e.ts
  /\ a.untilTs # NoTs => e.ts <= a.untilTs
  /\ ~(a.afterEventId # NoId /\ e.ts = a.sinceTs
         /\ e.eventId <= a.afterEventId)

\* the limit of the call with arguments a
LimitOf(a) == IF a.limit # NoTs THEN a.limit ELSE DEFAULT_LIMIT

\* C23: by_ts_range returns only events of the project with
\* since_ts <= ts <= until_ts, ordered by (ts ascending, event_id
\* ascending), namely the first `limit` events of the qualifying set in that
\* order; with after_event_id, exactly the events with ts = since_ts and
\* event_id <= after_event_id are excluded from the qualifying set.
C23_ByTsRange ==
  (calls > 0 /\ last.op = "listByTsRange") =>
    last.ret =
      Take(InCursorOrder(SelectSeq(events,
                           LAMBDA e : Qualifies(e, last.args))),
           LimitOf(last.args))

\* the part of C23 that the code keeps: the result holds qualifying events
\* only, in order of ts, no more than the limit, and all of the qualifying
\* set when that is within the limit
ByTsRangeUpToTies ==
  (calls > 0 /\ last.op = "listByTsRange") =>
    LET a == last.args
        ret == last.ret
        qualifying == SelectSeq(events, LAMBDA e : Qualifies(e, a))
    IN /\ \A i \in DOMAIN ret : Qualifies(ret[i], a)
       /\ \A i, j \in DOMAIN ret : i < j => ret[i].ts <= ret[j].ts
       /\ Len(ret) = IF Len(qualifying) < LimitOf(a)
                       THEN Len(qualifying) ELSE LimitOf(a)
       /\ \A i \in DOMAIN ret :
            \E k \in DOMAIN events : events[k] = ret[i]
       /\ \A k \in DOMAIN qualifying :
            (\A i \in DOMAIN ret : ret[i] # qualifying[k]) =>
              \A i \in DOMAIN ret : ret[i].ts <= qualifying[k].ts

----------------------------------------------------------------------------
(* Properties of the access guard                                          *)

\* the role set each public mutation requires
RequiredRoles(op) ==
  CASE op = "requestCommand" -> {"bot", "operator"}
    [] op = "createCard" -> {"bot"}
    [] op = "requestDecision" -> {"bot"}
    [] op = "claimDecision" -> {"operator"}
    [] op = "renewDecisionClaim" -> {"operator"}
    [] op = "renderDecision" -> {"operator"}

GuardedMutations ==
  {"requestCommand", "requestDecision", "claimDecision",
   "renewDecisionClaim", "renderDecision"}

PublicMutations == GuardedMutations \cup {"createCard"}

\* the roles user u holds in project p
RolesIn(u, p) ==
  {m.role : m \in {n \in project_members :
                     n.userId = u /\ n.projectId = p}}

\* what the guard answers to user u calling an operation with role set R
\* on project p
Guard(u, p, R) ==
  IF u = Undefined THEN "Unauthenticated"
  ELSE IF RolesIn(u, p) = {} THEN "NotAMember"
  ELSE IF RolesIn(u, p) \cap (R \cup {"owner"}) = {}
    THEN "InsufficientPermissions"
  ELSE NoError

\* the outcome of user u calling operation op on project p now
Outcome(op, u, p) ==
  CASE op = "requestCommand" ->
         requestCommand(Tx, clock, u,
           [projectId |-> p, idempotencyKey |-> Undefined,
            priority |-> NoTs])
    [] op = "createCard" ->
         createCard(Tx, clock,
           [projectId |-> p, commandId |-> NoId,
            priority |-> DEFAULT_PRIORITY])
    [] op = "requestDecision" ->
         requestDecision(Tx, clock, u,
           DecisionArgs(p, NoId, "today", NoTs, Undefined))
    [] op = "claimDecision" ->
         claimDecision(Tx, clock, u, [projectId |-> p, decisionId |-> NoId])
    [] op = "renewDecisionClaim" ->
         renewDecisionClaim(Tx, clock, u,
           [projectId |-> p, decisionId |-> NoId])
    [] op = "renderDecision" ->
         renderDecision(Tx, clock, u,
           [projectId |-> p, decisionId |-> NoId, optionKey |-> "approve",
            note |-> Undefined])

GuardErrors == {"Unauthenticated", "NotAMember", "InsufficientPermissions"}

\* the operations of ops answer as the guard does, and none of them has
\* run for a caller the guard rejects
GuardHolds(ops) ==
  /\ \A op \in ops, u \in Callers, p \in Projects :
       LET g == Guard(u, p, RequiredRoles(op))
       IN IF g # NoError
            THEN Outcome(op, u, p).error = g
            ELSE Outcome(op, u, p).error \notin GuardErrors
  /\ (calls > 0 /\ last.op \in ops) =>
       Guard(last.user, last.args.projectId, RequiredRoles(last.op)) = NoError

\* C24: every public operation runs its handler if and only if the caller
\* is authenticated, is a member of the project and has the role owner or a
\* role of the operation's role set; otherwise it fails with
\* Unauthenticated, NotAMember or InsufficientPermissions, in that order of
\* checking, and changes nothing.  So a bot or a viewer never claims or
\* renders, a viewer runs no mutation, and an operator neither requests a
\* decision nor creates a card.
C24_AccessGuard == GuardHolds(PublicMutations)

\* the part of C24 that the code keeps: the mutations wrapped in withAuth
GuardOnWrappedMutations == GuardHolds(GuardedMutations)

----------------------------------------------------------------------------
(* Properties of the scope of a project                                    *)

\* the calls on decision d made through project p, with each option key
ScopedArgs(p, d) == [projectId |-> p, decisionId |-> d]
RenderArgs(p, d, k) ==
  [projectId |-> p, decisionId |-> d, optionKey |-> k, note |-> Undefined]

\* user u calling through project p on the decision of row i gets what a
\* call on a decision that does not exist gets: NotFound from the mutations,
\* with nothing written, and null from the queries
AsIfAbsent(u, p, i) ==
  LET d == decisions[i].decisionId
      a == ScopedArgs(p, d)
      none == ScopedArgs(p, NoId)
      NotFound(out) == out.error = "NotFound" /\ out = Throw(Tx, "NotFound")
  IN /\ claimDecision(Tx, clock, u, a) = claimDecision(Tx, clock, u, none)
     /\ renewDecisionClaim(Tx, clock, u, a)
          = renewDecisionClaim(Tx, clock, u, none)
     /\ \A k \in OptionInputs :
          renderDecision(Tx, clock, u, RenderArgs(p, d, k))
            = renderDecision(Tx, clock, u, RenderArgs(p, NoId, k))
     /\ decisionDetail(Tx, u, a) = decisionDetail(Tx, u, none)
     /\ awaitDecision(Tx, u, a) = awaitDecision(Tx, u, none)
     /\ Guard(u, p, {"operator"}) = NoError =>
          /\ NotFound(claimDecision(Tx, clock, u, a))
          /\ NotFound(renewDecisionClaim(Tx, clock, u, a))
          /\ \A k \in OptionInputs :
               NotFound(renderDecision(Tx, clock, u, RenderArgs(p, d, k)))
     /\ Guard(u, p, ALL_ROLES) = NoError =>
          decisionDetail(Tx, u, a) = Answer(NoError, Null)
     /\ Guard(u, p, {"bot"}) = NoError =>
          awaitDecision(Tx, u, a) = Answer(NoError, Null)

\* C25: claim_decision, renew_claim and render_decision called with a
\* project_id other than the decision's project fail with NotFound, leave
\* the decision row as it was and append no event, not even
\* DecisionRenderRejected; decision_detail and await_decision return null;
\* the outcome is the outcome of the same call on a decision_id that does
\* not exist.
C25_CrossProjectNotFound ==
  \A i \in DOMAIN decisions, p \in Projects, u \in Callers :
    p # decisions[i].projectId => AsIfAbsent(u, p, i)

\* opA, an operator of P1 and of P2, holds the claim of a decision of P1
\* and is answered NotFound when rendering it through P2
C25_Witness ==
  \E i \in DOMAIN decisions :
    /\ decisions[i].projectId = "P1"
    /\ decisions[i].state = "CLAIMED"
    /\ decisions[i].claimedBy = "opA"
    /\ calls > 0
    /\ last.op = "claimDecision"
    /\ renderDecision(Tx, clock, "opA",
         RenderArgs("P2", decisions[i].decisionId, "approve")).error
         = "NotFound"
    /\ renderDecision(Tx, clock, "opA",
         RenderArgs("P1", decisions[i].decisionId, "approve")).error
         = NoError

\* request_decision through project p naming card c and command m is
\* refused with NotFound and writes nothing
RefusedAsNotFound(p, c, m) ==
  LET a == [DecisionArgs(p, c, "today", NoTs, Undefined)
              EXCEPT !.commandId = m]
  IN /\ requestDecision(Tx, clock, "bot", a) = Throw(Tx, "NotFound")
     /\ _httpRequestDecision(Tx, clock, a) = Throw(Tx, "NotFound")

\* C26: request_decision whose card_id, command_id or run_id belongs to
\* another project fails with NotFound: no decision row is inserted and no
\* DecisionRequested is appended.
C26_RequestDecisionScoped ==
  /\ \A i \in DOMAIN cards, p \in Projects :
       p # cards[i].projectId => RefusedAsNotFound(p, cards[i].cardId, NoId)
  /\ \A i \in DOMAIN commands, p \in Projects :
       p # commands[i].projectId =>
         RefusedAsNotFound(p, NoId, commands[i].commandId)

\* the same, read off the tables: no decision names a card or a command of
\* another project
NoForeignReference ==
  \A i \in DOMAIN decisions :
    /\ \A j \in DOMAIN cards :
         cards[j].cardId = decisions[i].cardId =>
           cards[j].projectId = decisions[i].projectId
    /\ \A j \in DOMAIN commands :
         commands[j].commandId = decisions[i].commandId =>
           commands[j].projectId = decisions[i].projectId

\* the rows of sequence rows belong to project p
AllOf(rows, p) == \A i \in DOMAIN rows : rows[i].projectId = p

\* the context bundle that decision_detail returned to a member of
\* project p holds material of project p only
BundleOf(ret, p) ==
  /\ ret.decision.projectId = p
  /\ ret.context.command # Null =>
       \A i \in DOMAIN commands :
         commands[i].commandId = ret.decision.commandId =>
           commands[i].projectId = p
  /\ AllOf(ret.context.artifacts, p)
  /\ \A k \in DOMAIN ret.context.eventChain :
       \A i \in DOMAIN events :
         events[i].eventId = ret.context.eventChain[k].eventId =>
           events[i].projectId = p

\* the rows that the list queries return to user u on project p belong to p
ListsScoped(u, p) ==
  /\ LET out == pendingDecisions(Tx, u, [projectId |-> p,
                                         urgency |-> Undefined])
     IN out.error = NoError => AllOf(out.ret, p)
  /\ \A state \in CardStates :
       AllOf(cardsByState(Tx, [projectId |-> p, state |-> state]).ret, p)
  /\ \A m \in CommandIds \cup {NoId} :
       AllOf(eventChain(Tx, [projectId |-> p, correlationId |-> m]).ret, p)

\* the bundles that decision_detail returns to user u on project p belong
\* to p
DetailScoped(u, p) ==
  \A d \in DecisionIds :
    LET out == decisionDetail(Tx, u, ScopedArgs(p, d))
    IN (out.error = NoError /\ out.ret # Null) => BundleOf(out.ret, p)

\* C27: every row that a query returns carries the project_id the caller
\* was resolved to: pending_decisions, artifacts_for_run,
\* artifacts_for_command, cards by state, the event chain, and what
\* decision_detail assembles into the context bundle (the command spec,
\* the artifact manifests of artifact_refs, the events of the chain).
C27_QueriesScoped ==
  \A u \in Callers, p \in Projects : ListsScoped(u, p) /\ DetailScoped(u, p)

\* the part of C27 that the code keeps: the list queries
ListQueriesScoped == \A u \in Callers, p \in Projects : ListsScoped(u, p)

----------------------------------------------------------------------------
(* Properties of projects and members                                      *)

\* the owners of project p
Owners(p) ==
  {m.userId : m \in {n \in project_members :
                       n.projectId = p /\ n.role = "owner"}}

\* init_project on an existing project fails with ProjectExists and writes
\* nothing; a project just made has its maker as an owner
InitProjectMakesOwner ==
  /\ \A u \in Users, p \in projects :
       initProject(Tx, u, [projectId |-> p]) = Throw(Tx, "ProjectExists")
  /\ (calls > 0 /\ last.op = "initProject") =>
       /\ last.args.projectId \in projects
       /\ last.user \in Owners(last.args.projectId)

\* remove_member of the only owner of a project removes nothing: whoever
\* may remove members is answered CannotRemoveLastOwner
LastOwnerStays ==
  \A p \in projects, target \in Users :
    Owners(p) = {target} =>
      \A u \in Users :
        LET out == removeMember(Tx, u, [projectId |-> p, userId |-> target])
        IN /\ out.error # NoError
           /\ Guard(u, p, {}) = NoError =>
                out = Throw(Tx, "CannotRemoveLastOwner")

\* C28: every project that exists has at least one owner: init_project
\* makes its caller the owner (and fails with ProjectExists for an existing
\* id), and remove_member fails with CannotRemoveLastOwner when its target
\* is the only owner, also when two owners remove each other one right
\* after the other.
C28_AlwaysAnOwner ==
  /\ \A p \in projects : Owners(p) # {}
  /\ InitProjectMakesOwner
  /\ LastOwnerStays

\* of two owners, one has just removed the other, and the one who is left
\* cannot remove themself
C28_Witness ==
  /\ calls > 0
  /\ last.op = "removeMember"
  /\ Owners("P1") = {last.user}
  /\ last.args.userId # last.user
  /\ removeMember(Tx, last.user,
       [projectId |-> "P1", userId |-> last.user]).error
       = "CannotRemoveLastOwner"
  /\ removeMember(Tx, last.args.userId,
       [projectId |-> "P1", userId |-> last.user]).error = "NotAMember"

----------------------------------------------------------------------------
(* Properties of the options of a decision                                 *)

\* the keys of the option list are pairwise distinct
DistinctKeys(options) ==
  \A i, j \in DOMAIN options : options[i] = options[j] => i = j

\* the fallback option, if set, is the key of an option
FallbackIsKey(options, fallbackOption) ==
  fallbackOption # Undefined =>
    \E i \in DOMAIN options : options[i] = fallbackOption

\* the error that a request with these options must get, or NoError
OptionsVerdict(options, fallbackOption, distinct) ==
  IF options = <<>> \/ (distinct /\ ~DistinctKeys(options))
    THEN "InvalidOptions"
  ELSE IF ~FallbackIsKey(options, fallbackOption) THEN "InvalidFallback"
  ELSE NoError

\* every decision row has well-formed options, and every request with
\* ill-formed ones is refused with the error of its kind and writes nothing,
\* on both paths; `distinct` says whether a repeated key is ill-formed
OptionsValidated(distinct) ==
  /\ \A i \in DOMAIN decisions :
       OptionsVerdict(decisions[i].options, decisions[i].fallbackOption,
                      distinct) = NoError
  /\ \A p \in Projects, options \in OptionLists, f \in FallbackInputs :
       LET verdict == OptionsVerdict(options, f, distinct)
           a == OptionArgs(p, options, f)
       IN IF verdict # NoError
            THEN /\ requestDecision(Tx, clock, "bot", a) = Throw(Tx, verdict)
                 /\ _httpRequestDecision(Tx, clock, a) = Throw(Tx, verdict)
            ELSE /\ requestDecision(Tx, clock, "bot", a).error = NoError
                 /\ _httpRequestDecision(Tx, clock, a).error = NoError

\* C29: every decision row has a non-empty option list with pairwise
\* distinct keys, and its fallback_option, if set, is the key of one of its
\* options; a request_decision that violates this, interactive or over
\* HTTP, fails with InvalidOptions or InvalidFallback, inserts no row and
\* appends no event.
C29_OptionsWellFormed == OptionsValidated(TRUE)

\* the part of C29 that the code keeps: everything but the distinct keys
OptionsValidatedUpToDistinct == OptionsValidated(FALSE)

----------------------------------------------------------------------------
(* Properties of the renewal of a claim                                    *)

\* user u holds the claim of the decision of row i
HoldsClaim(u, i) ==
  decisions[i].state = "CLAIMED" /\ decisions[i].claimedBy = u

\* out is what renew_claim by user u on the decision of row i must come
\* to: a new claimed_until and nothing else when u holds the claim,
\* otherwise NotYourClaim and nothing at all
Renewed(out, u, i) ==
  /\ out.error = NoError <=> HoldsClaim(u, i)
  /\ out.error # NoError => out = Throw(Tx, "NotYourClaim")
  /\ out.error = NoError =>
       out = [Tx EXCEPT !.decisions[i].claimedUntil = clock + 5 * 60 * 1000,
                        !.ret = [claimedUntil |-> clock + 5 * 60 * 1000]]

\* C30: renew_claim succeeds if and only if the decision is CLAIMED and
\* claimed_by is the caller; otherwise it fails with NotYourClaim and
\* changes nothing; when it succeeds it sets claimed_until to now plus five
\* minutes and changes nothing else; it appends no event.
C30_RenewClaimFrame ==
  \A i \in DOMAIN decisions, u \in Operators :
    Guard(u, decisions[i].projectId, {"operator"}) = NoError =>
      Renewed(renewDecisionClaim(Tx, clock, u,
                ScopedArgs(decisions[i].projectId, decisions[i].decisionId)),
              u, i)

\* opA has renewed the claim after some of the lease had run, and opB, who
\* does not hold it, is refused
C30_Witness ==
  /\ calls > 0
  /\ last.op = "renewDecisionClaim"
  /\ last.now > 0
  /\ Row(last.args.decisionId).claimedBy = last.user
  /\ Row(last.args.decisionId).claimedUntil = last.now + DECISION_CLAIM_MS
  /\ Row(last.args.decisionId).projectId = "P1"
  /\ renewDecisionClaim(Tx, clock, "opB", last.args).error = "NotYourClaim"
  /\ last.user = "opA"

----------------------------------------------------------------------------
(* Properties of rejected card transitions                                 *)

\* the edges of the card state machine
Edges ==
  {<<"READY", "RUNNING">>, <<"RUNNING", "DONE">>,
   <<"RUNNING", "NEEDS_DECISION">>, <<"RUNNING", "FAILED">>,
   <<"RUNNING", "RETRY_SCHEDULED">>, <<"NEEDS_DECISION", "RUNNING">>,
   <<"NEEDS_DECISION", "FAILED">>, <<"RETRY_SCHEDULED", "READY">>}

CardArgs(c, to, r) ==
  [cardId |-> c, to |-> to, reason |-> "step", commandId |-> NoId,
   decisionId |-> NoId, retryAtTs |-> r]

\* C31: transition_card to a state that is not allowed from the card's
\* current state fails with InvalidTransition, naming from and to, and
\* transition_card on an unknown card_id fails with CardNotFound; in both
\* cases no card row changes and no CardTransitioned event is appended.
C31_RejectedTransitions ==
  /\ \A i \in DOMAIN cards, to \in CardStates, r \in {NoTs, clock + TickMs} :
       <<cards[i].state, to>> \notin Edges =>
         transitionCard(Tx, clock, CardArgs(cards[i].cardId, to, r))
           = Throw(Tx, "InvalidTransition: " \o cards[i].state
                         \o " -> " \o to)
  /\ \A c \in {NoId, nextId}, to \in CardStates :
       transitionCard(Tx, clock, CardArgs(c, to, NoTs))
         = Throw(Tx, "CardNotFound")

\* a card has just been moved to DONE, and moving it on to RUNNING is
\* refused
C31_Witness ==
  /\ calls > 0
  /\ last.op = "transitionCard"
  /\ last.ret.to = "DONE"
  /\ transitionCard(Tx, clock, CardArgs(last.args.cardId, "RUNNING", NoTs))
       = Throw(Tx, "InvalidTransition: DONE -> RUNNING")

----------------------------------------------------------------------------
(* Properties of a sweep in which one item fails                           *)

\* the decision of row i is due for expiry at the current instant
DueNow(i) ==
  /\ IsOpen(decisions[i])
  /\ decisions[i].expiresAt # NoTs
  /\ decisions[i].expiresAt <= clock

\* the current tables with the decision of row i turned into an item whose
\* DecisionRendered append raises: its fallback is a string of the denylist
FailingItem(i) ==
  [Tx EXCEPT !.decisions[i].fallbackOption =
                CHOOSE s \in SECRET_PATTERNS : TRUE]

\* the decisions table a sweep of transaction tx leaves behind: a sweep that
\* raises commits nothing
SweptDecisions(tx) ==
  LET out == sweep(tx, clock, [now |-> NoTs])
  IN IF out.error = NoError THEN out.decisions ELSE tx.decisions

\* C32: if processing one item of a sweep fails, the remaining items of the
\* phase and the later phases are still processed and committed: every other
\* decision that is due is closed by the pass.
C32_SweepIsolatesFailures ==
  \A i \in DOMAIN decisions :
    DueNow(i) =>
      \A j \in DOMAIN decisions \ {i} :
        DueNow(j) => ~IsOpen(SweptDecisions(FailingItem(i))[j])

----------------------------------------------------------------------------
(* Properties of the wake after a rendering: the cron job and the operators *)
(* alone, no worker calling transitionCard                                  *)

NextWake ==
  \/ CronSweep
  \/ ClaimDecision
  \/ RenewDecisionClaim
  \/ RenderDecision

SpecWake == Init /\ [][NextWake]_vars /\ WF_clock(CronDue)

\* decision d has a row
Requested(d) == IndexOf(decisions, "decisionId", d) # 0

\* the state of the card that decision d is linked to
LinkedCardState(d) ==
  LET i == IndexOf(cards, "cardId", Row(d).cardId)
  IN IF i = 0 THEN Undefined ELSE cards[i].state

\* decision d is RENDERED and its card still waits for it
RenderedWhileWaiting(d) ==
  /\ Requested(d)
  /\ Row(d).state = "RENDERED"
  /\ LinkedCardState(d) = "NEEDS_DECISION"

\* C33: whenever a decision becomes RENDERED while its linked card is in
\* NEEDS_DECISION, the core moves that card to RUNNING, in the same
\* transaction or eventually, without any further call of a bot.
C33_RenderWakesCard ==
  \A d \in SeedDecisionIds :
    RenderedWhileWaiting(d)
      ~> (Requested(d) /\ LinkedCardState(d) = "RUNNING")

\* the part of C33 that the code keeps: a sweep that renders a decision
\* takes the decision's card out of NEEDS_DECISION in the same transaction
SweepWakesCard ==
  [][Committed("sweep") =>
       \A d \in SeedDecisionIds :
         (Requested(d) /\ IsOpen(Row(d)) /\ Row(d)'.state = "RENDERED")
           => LinkedCardState(d)' # "NEEDS_DECISION"]_vars

\* a card leaves NEEDS_DECISION only in a sweep that itself closes an open
\* decision of the card: nothing moves the card of a decision an operator
\* rendered
OnlyTheSweepWakes ==
  [][\A i \in DOMAIN cards :
       (cards[i].state = "NEEDS_DECISION"
          /\ cards'[i].state # "NEEDS_DECISION")
         => /\ Committed("sweep")
            /\ \E d \in SeedDecisionIds :
                 /\ Requested(d)
                 /\ Row(d).cardId = cards[i].cardId
                 /\ IsOpen(Row(d))
                 /\ ~IsOpen(Row(d)')]_vars

----------------------------------------------------------------------------
(* Properties of retry release: workers schedule retries, the cron job     *)
(* releases them                                                            *)

NextRetry ==
  \/ CronSweep
  \/ CreateCard
  \/ TransitionCardAnyArgs

SpecRetry == InitCards /\ [][NextRetry]_vars /\ WF_clock(CronDue)

\* positions of the cards table: the seeded cards and one per call
CardSlots == 1..(MaxCalls + 2)

\* the card in row i waits for a retry that a modelled run of the cron job
\* can release: it names no instant or one that a run reaches
AwaitsRetry(i) ==
  /\ i \in DOMAIN cards
  /\ cards[i].state = "RETRY_SCHEDULED"
  /\ cards[i].retryAtTs <= LastRun

\* the sweeper has released the card in row i: the card is READY with
\* retry_at_ts cleared and the log holds its release
RetryReleased(i) ==
  /\ i \in DOMAIN cards
  /\ cards[i].state = "READY"
  /\ cards[i].retryAtTs = NoTs
  /\ \E k \in DOMAIN events :
       /\ events[k].type = "CardTransitioned"
       /\ events[k].cardId = cards[i].cardId
       /\ events[k].payload.reason = "retry timer fired"

\* C34: with the sweeper running again and again while time advances, every
\* card that enters RETRY_SCHEDULED through a valid transition_card call is
\* eventually moved to READY with reason "retry timer fired" and retry_at_ts
\* cleared.
C34_RetryReleased ==
  \A i \in CardSlots : AwaitsRetry(i) ~> RetryReleased(i)

\* the part of C34 that the code keeps: a card scheduled with a retry_at_ts
\* leaves RETRY_SCHEDULED once a run reaches that instant, with its attempt
\* unchanged by the release
ReleasedWhenTimed ==
  \A i \in CardSlots :
    (AwaitsRetry(i) /\ cards[i].retryAtTs # NoTs)
      ~> (i \in DOMAIN cards /\ cards[i].state # "RETRY_SCHEDULED")

\* after any sweep(now) no card remains RETRY_SCHEDULED with
\* retry_at_ts <= now
NoneDueAfterSweep ==
  [][Committed("sweep") =>
       \A i \in DOMAIN cards' :
         ~(/\ cards'[i].state = "RETRY_SCHEDULED"
           /\ cards'[i].retryAtTs # NoTs
           /\ cards'[i].retryAtTs <= clock)]_vars

\* a sweep never touches a card that was scheduled without retry_at_ts
UntimedNeverReleased ==
  [][Committed("sweep") =>
       \A i \in DOMAIN cards :
         (cards[i].state = "RETRY_SCHEDULED" /\ cards[i].retryAtTs = NoTs)
           => cards'[i] = cards[i]]_vars

----------------------------------------------------------------------------
(* Properties of closed decisions                                          *)

\* C35: RENDERED and EXPIRED are terminal: once a decision is in either
\* state no later operation (claim, renew, render, any sweep phase) changes
\* its row, and claim_decision on it fails with NotClaimable(state) and
\* appends no event.
C35_ClosedIsTerminal ==
  /\ [][\A i \in DOMAIN decisions :
          decisions[i].state \in {"RENDERED", "EXPIRED"}
            => decisions'[i] = decisions[i]]_vars
  /\ [](\A i \in DOMAIN decisions, u \in Operators :
          (/\ decisions[i].state \in {"RENDERED", "EXPIRED"}
           /\ Guard(u, decisions[i].projectId, {"operator", "owner"})
                = NoError)
            => claimDecision(Tx, clock, u,
                 [projectId |-> decisions[i].projectId,
                  decisionId |-> decisions[i].decisionId])
                 = Throw(Tx, "NotClaimable: " \o decisions[i].state))

\* an operator's render of an EXPIRED decision has just been rejected, and
\* the decision is still EXPIRED
C35_Witness ==
  /\ calls > 1
  /\ last.op = "renderDecision"
  /\ last.ret.status = "rejected"
  /\ Row(last.args.decisionId).state = "EXPIRED"
  /\ \E k \in 1..(calls - 1) : history[k].op = "sweep"

----------------------------------------------------------------------------
(* Properties of decisions without a deadline: sweeps at the clock's       *)
(* instant and a day later, next to the operators                           *)

\* sweep({now}) with now absent or one deferral ahead of the clock
SweepLater ==
  \E now \in {NoTs, clock + DEFER_EXTENSION_MS} :
    LET a == [now |-> now]
    IN Commit("sweep", SWEEPER, a, sweep(Tx, clock, a))

NextDefer ==
  \/ Tick
  \/ ClaimDecision
  \/ RenderDecision
  \/ SweepLater

SpecDefer == Init /\ [][NextDefer]_vars

\* decision d was requested without expires_at
RequestedOpenEnded(d) ==
  \E k \in EventsOf("DecisionRequested", d) :
    events[k].payload.expiresAt = NoTs

\* load shedding has given decision d a deadline
DeadlineExtended(d) ==
  \E k \in EventsOf("DecisionDeferred", d) :
    events[k].payload.action = "extended_expiry"

\* decision d was expired: its row is EXPIRED, or the log holds its
\* DecisionExpired, or its card was failed for it
WasExpired(d) ==
  \/ Row(d).state = "EXPIRED"
  \/ EventsOf("DecisionExpired", d) # {}
  \/ \E k \in EventsOf("CardTransitioned", d) :
       events[k].payload.reason = "decision expired, no fallback"

\* C36: a decision requested without expires_at is never expired: it is
\* never EXPIRED, no DecisionExpired is appended for it and its card is never
\* failed with reason "decision expired, no fallback", whatever the sweeps
\* and the backlog.
C36_OpenEndedNeverExpires ==
  \A d \in DecisionIds : RequestedOpenEnded(d) => ~WasExpired(d)

\* C36 as the code has it: a decision requested without expires_at is never
\* expired unless load shedding has extended its expiry, which gives it a
\* deadline a day after the sweep that deferred it.
OpenEndedUnlessDeferred ==
  \A d \in DecisionIds :
    (RequestedOpenEnded(d) /\ ~DeadlineExtended(d)) => ~WasExpired(d)

\* a decision requested without expires_at is still open and without a
\* deadline after a sweep whose now lies a day ahead
C36_Witness ==
  /\ calls > 0
  /\ last.op = "sweep"
  /\ last.args.now >= DEFER_EXTENSION_MS
  /\ \E d \in DecisionIds :
       /\ RequestedOpenEnded(d)
       /\ IsOpen(Row(d))
       /\ Row(d).expiresAt = NoTs

----------------------------------------------------------------------------
(* Properties of two sweeps in a row                                       *)

\* the instants a sweep may be given in the current state
SweepInstants == {clock, clock + TickMs}

\* the tables after sweep(now) ran on transaction tx
SweptAt(tx, now) == sweep(tx, clock, [now |-> now])

\* the events that the sweep leading from transaction tx to out appended
AppendedBy(tx, out) == SubSeq(out.events, Len(tx.events) + 1, Len(out.events))

\* C37: sweep is idempotent for a fixed now: running sweep(now) twice in a
\* row leaves every card row, every decision row and the event log as they
\* were after the first run.
C37_SweepIdempotent ==
  \A now \in SweepInstants :
    LET once == SweptAt(Tx, now)
        twice == SweptAt(once, now)
    IN /\ twice.error = once.error
       /\ twice.cards = once.cards
       /\ twice.decisions = once.decisions
       /\ twice.events = once.events

\* the part of C37 that the code keeps: the second run repeats nothing but
\* the deferral of the decisions whose expiry the first run extended
IdempotentUpToDeferral ==
  \A now \in SweepInstants :
    LET once == SweptAt(Tx, now)
        twice == SweptAt(once, now)
        again == AppendedBy(once, twice)
    IN /\ twice.error = once.error
       /\ twice.cards = once.cards
       /\ \A k \in DOMAIN again :
            /\ again[k].type = "DecisionDeferred"
            /\ again[k].payload.action = "extended_expiry"
            /\ \E j \in DOMAIN AppendedBy(Tx, once) :
                 /\ AppendedBy(Tx, once)[j].type = "DecisionDeferred"
                 /\ AppendedBy(Tx, once)[j].decisionId = again[k].decisionId
       /\ \A i \in DOMAIN once.decisions :
            \/ twice.decisions[i] = once.decisions[i]
            \/ /\ twice.decisions[i] =
                    [once.decisions[i] EXCEPT !.expiresAt = @ + DEFER_EXTENSION_MS]
               /\ \E k \in DOMAIN again :
                    again[k].decisionId = once.decisions[i].decisionId

----------------------------------------------------------------------------
(* Properties of cursor paging                                             *)

\* batch sizes of the replay loop
BatchSizes == 1..3

\* the events that a replay of project p from instant 0 reads
Visited(p, batchSize) == readBatches(events, p, batchSize, 0, NoId)

\* the events of project p
LogOf(p) == SelectSeq(events, LAMBDA e : e.projectId = p)

\* how often event e occurs in sequence s
Occurrences(s, e) == Cardinality({i \in DOMAIN s : s[i] = e})

\* C38: cursor paging over by_ts_range is complete and duplicate-free: the
\* replay loop visits every event of the project exactly once, for every
\* batch size >= 1 and any insertion order of events that share a timestamp.
C38_PagingVisitsOnce ==
  \A p \in Projects, b \in BatchSizes :
    /\ Len(Visited(p, b)) = Len(LogOf(p))
    /\ \A i \in DOMAIN LogOf(p) :
         Occurrences(Visited(p, b), LogOf(p)[i])
           = Occurrences(LogOf(p), LogOf(p)[i])

\* the part of C38 that the code keeps: when the events of equal ts were
\* appended in ascending event_id order, the loop visits every event of the
\* project exactly once, in cursor order
PagingVisitsOnceInOrder ==
  \A p \in Projects, b \in BatchSizes :
    (\A i, j \in DOMAIN LogOf(p) :
       (i < j /\ LogOf(p)[i].ts = LogOf(p)[j].ts)
         => LogOf(p)[i].eventId < LogOf(p)[j].eventId)
      => Visited(p, b) = InCursorOrder(LogOf(p))

----------------------------------------------------------------------------
(* Properties of the sweeper across projects: project P1 holds a waiting   *)
(* card, and a bot that is a member of project P2 only requests decisions  *)

\* the bot of project P2, added by the owner
ForeignBot == "botB"

SeedsApart ==
  {SeedWaiting(addMember(EmptyTx, "own",
                 [projectId |-> "P2", userId |-> ForeignBot, role |-> "bot"]),
               "P1", "today", e, f) :
     e \in {NoTs, TickMs}, f \in {Undefined, "approve"}}

InitApart == InitFrom(SeedsApart)

\* requestDecision by the bot of P2 on its own project, naming any card
RequestDecisionFromP2 ==
  \E c \in CardIds \cup {NoId}, e \in {NoTs, clock + TickMs},
     f \in {Undefined, "approve"} :
    LET a == DecisionArgs("P2", c, "today", e, f)
    IN Commit("requestDecision", ForeignBot, a,
              requestDecision(Tx, clock, ForeignBot, a))

NextApart ==
  \/ Tick
  \/ RequestDecisionFromP2
  \/ Sweep

SpecApart == InitApart /\ [][NextApart]_vars

\* the step closes an open decision of the card's own project that is linked
\* to the card in row i
ClosesOwnDecision(i) ==
  \E j \in DOMAIN decisions :
    /\ decisions[j].cardId = cards[i].cardId
    /\ decisions[j].projectId = cards[i].projectId
    /\ IsOpen(decisions[j])
    /\ ~IsOpen(decisions'[j])

\* a decision of another project names the card in row i
NamedFromOutside(i) ==
  \E j \in DOMAIN decisions :
    /\ decisions[j].cardId = cards[i].cardId
    /\ decisions[j].projectId # cards[i].projectId

\* C39: the sweeper's decision paths change a card's state only on behalf of
\* a decision whose project_id equals the card's project_id, so operations
\* of members of one project, followed by sweeps, never change the state of
\* a card of another project.
C39_SweeperKeepsProjectsApart ==
  [][Committed("sweep") =>
       \A i \in DOMAIN cards :
         cards'[i].state # cards[i].state => ClosesOwnDecision(i)]_vars

\* the part of C39 that the code keeps: a card that no decision of another
\* project names is moved by a sweep only for a decision of its own project
ApartUnlessNamed ==
  [][Committed("sweep") =>
       \A i \in DOMAIN cards :
         (cards'[i].state # cards[i].state /\ ~NamedFromOutside(i))
           => ClosesOwnDecision(i)]_vars

----------------------------------------------------------------------------
(* Properties of renders in the read model and in the log: the decision    *)
(* lifecycle next to the public emitEvent                                   *)

\* emitEvent by the bot with a DecisionRendered event about any decision
EmitDecisionRendered ==
  \E p \in Projects, d \in DecisionIds, k \in OptionInputs :
    LET a == [projectId |-> p, eventId |-> 0 - 1, type |-> "DecisionRendered",
              ts |-> clock, commandId |-> NoId, cardId |-> NoId,
              decisionId |-> d, idempotencyKey |-> Undefined,
              payload |-> [selectedOption |-> k, renderedBy |-> "bot",
                           note |-> Undefined]]
    IN Commit("emitEvent", "bot", a, emitEvent(Tx, "bot", a))

NextEmit ==
  \/ Tick
  \/ ClaimDecision
  \/ RenderDecision
  \/ Sweep
  \/ EmitDecisionRendered

SpecEmit == Init /\ [][NextEmit]_vars

\* C40: the decisions read model and the event log agree on renders: a
\* decision row is RENDERED if and only if the log contains a DecisionRendered
\* event with its decision_id, and that event's selectedOption and renderedBy
\* equal the row's rendered_option and rendered_by.
C40_RendersAgree ==
  \A d \in DecisionIds :
    /\ Row(d).state = "RENDERED" <=> EventsOf("DecisionRendered", d) # {}
    /\ \A k \in EventsOf("DecisionRendered", d) :
         /\ events[k].payload.selectedOption = Row(d).renderedOption
         /\ events[k].payload.renderedBy = Row(d).renderedBy

\* the part of C40 that the code keeps: the DecisionRendered events that the
\* lifecycle itself appends (renderDecision and the sweeper, not emitEvent)
\* agree with the rows
LifecycleRendersAgree ==
  \A d \in DecisionIds :
    LET own == {k \in EventsOf("DecisionRendered", d) :
                  events[k].payload.renderedBy # "bot"}
    IN /\ Row(d).state = "RENDERED" <=> own # {}
       /\ \A k \in own :
            /\ events[k].payload.selectedOption = Row(d).renderedOption
            /\ events[k].payload.renderedBy = Row(d).renderedBy

====
